---- MODULE Spec2Model ----
(***************************************************************************)
(* A model of the tuple-store repository: the core path-addressed tree     *)
(* (CoreTupleStore), the journal and transactions layered on it            *)
(* (JournaledTupleStore), the subscriptions layered on that                *)
(* (ObservableTupleStore) and the namespaces that prefix paths into one    *)
(* shared store (NamespacedTupleStore).                                    *)
(*                                                                         *)
(* Representation.  A JavaScript string is a sequence of one-character     *)
(* strings, so that split, join, endsWith, replace and the regular         *)
(* expression of matchesPattern work on characters as the code does.  A    *)
(* key is a string and a path is a sequence of keys.  A JavaScript value   *)
(* is a function from the relative paths inside it to a tag: the tag at    *)
(* <<>> is "object" for a plain object, "undefined", "null", or the text   *)
(* of a number.  Objects are compared and copied by value; the object      *)
(* identities the model keeps are those of Transaction objects (txOps),    *)
(* which the journal and stale handles share with the store, of the object *)
(* get has just returned, which is the tree's own, and of the closures a   *)
(* namespaced subscribe makes.                                             *)
(***************************************************************************)
EXTENDS Integers, Sequences, FiniteSets, TLC

\* ---------------------------------------------------------------- values

Undefined == (<<>> :> "undefined")
Null == (<<>> :> "null")
EmptyObject == (<<>> :> "object")
Num(n) == (<<>> :> n)

\* typeof v === "object" && v !== null
IsObject(v) == v[<<>>] = "object"

\* key in v, for an object v
In(key, v) == <<key>> \in DOMAIN v

\* Object.keys(v), as a set
Keys(v) == {p[1] : p \in {q \in DOMAIN v : Len(q) = 1}}

\* v[key] for an object v that has the key
Child(v, key) ==
  [q \in {Tail(p) : p \in {r \in DOMAIN v : Len(r) >= 1 /\ r[1] = key}}
     |-> v[<<key>> \o q]]

\* v[key] for any v other than undefined and null: a number has no properties
Prop(v, key) == IF IsObject(v) /\ In(key, v) THEN Child(v, key) ELSE Undefined

\* the object v after v[key] = c
Put(v, key, c) ==
  [p \in {r \in DOMAIN v : Len(r) = 0 \/ r[1] # key} \cup {<<key>> \o q : q \in DOMAIN c}
     |-> IF Len(p) >= 1 /\ p[1] = key THEN c[Tail(p)] ELSE v[p]]

\* the object v after delete v[key]
Remove(v, key) == [p \in {r \in DOMAIN v : Len(r) = 0 \/ r[1] # key} |-> v[p]]

\* structuredClone(v): a deep copy, which is v itself where objects are values
structuredClone(v) == v

\* ---------------------------------------------------------------- strings

Star == <<"*">>
StarStar == <<"*", "*">>

RECURSIVE SplitFrom(_, _)
SplitFrom(s, cur) ==
  IF s = <<>> THEN <<cur>>
  ELSE IF Head(s) = "." THEN <<cur>> \o SplitFrom(Tail(s), <<>>)
  ELSE SplitFrom(Tail(s), Append(cur, Head(s)))

\* A path argument (string | string[]) is a string or an array of strings
Str(s) == [array |-> FALSE, s |-> s]
Arr(parts) == [array |-> TRUE, parts |-> parts]

\* normalizePath, the same in the three store classes: a copy of an array, the
\* empty path for the empty string, String(path).split(".") otherwise
normalizePath(path) ==
  IF path.array THEN path.parts
  ELSE IF path.s = <<>> THEN <<>>
  ELSE SplitFrom(path.s, <<>>)

\* parts.join(".")
RECURSIVE Join(_)
Join(parts) ==
  IF parts = <<>> THEN <<>>
  ELSE IF Len(parts) = 1 THEN parts[1]
  ELSE parts[1] \o <<".">> \o Join(Tail(parts))

StartsWith(s, pre) == Len(s) >= Len(pre) /\ SubSeq(s, 1, Len(pre)) = pre
EndsWith(s, suf) == Len(s) >= Len(suf) /\ SubSeq(s, Len(s) - Len(suf) + 1, Len(s)) = suf

\* s.replace(/from/g, to) for a literal from: leftmost, non-overlapping
RECURSIVE ReplaceAll(_, _, _)
ReplaceAll(s, from, to) ==
  IF s = <<>> THEN <<>>
  ELSE IF StartsWith(s, from) THEN to \o ReplaceAll(SubSeq(s, Len(from) + 1, Len(s)), from, to)
  ELSE <<Head(s)>> \o ReplaceAll(Tail(s), from, to)

\* ---------------------------------------------------------------- CoreTupleStore

RECURSIVE getNestedValue(_, _)
getNestedValue(obj, path) ==
  IF path = <<>> THEN obj
  ELSE IF obj = Undefined \/ obj = Null THEN Undefined
  ELSE getNestedValue(Prop(obj, Head(path)), Tail(path))

\* A setNestedValue that keeps an intermediate value that is not an object,
\* and so writes nothing below it
RECURSIVE setNestedValueKeepingScalars(_, _, _)
setNestedValueKeepingScalars(obj, path, value) ==
  IF path = <<>> THEN obj
  ELSE IF Len(path) = 1 THEN Put(obj, path[1], value)
  ELSE LET key == Head(path)
       IN IF In(key, obj) /\ Child(obj, key) # Null /\ ~IsObject(Child(obj, key))
          THEN obj
          ELSE LET cur == IF ~In(key, obj) \/ Child(obj, key) = Null
                          THEN EmptyObject
                          ELSE Child(obj, key)
               IN Put(obj, key, setNestedValueKeepingScalars(cur, Tail(path), value))

\* The object obj after setNestedValue(obj, path, value) has run; the value the
\* function returns is used by no caller.  With the empty path it returns value
\* and leaves obj alone.
RECURSIVE setNestedValue(_, _, _)
setNestedValue(obj, path, value) ==
  IF path = <<>> THEN obj
  ELSE IF Len(path) = 1 THEN Put(obj, path[1], value)
  ELSE LET key == Head(path)
           cur == IF ~In(key, obj) \/ Child(obj, key) = Null \/ ~IsObject(Child(obj, key))
                  THEN EmptyObject
                  ELSE Child(obj, key)
       IN Put(obj, key, setNestedValue(cur, Tail(path), value))

\* CoreTupleStore.get
CoreGet(tree, path) == getNestedValue(tree, normalizePath(path))

\* CoreTupleStore.has: "true", "false", or "TypeError" when the in operator is
\* applied to a number
RECURSIVE hasFrom(_, _)
hasFrom(current, path) ==
  IF path = <<>> THEN "true"
  ELSE IF current = Undefined \/ current = Null THEN "false"
  ELSE IF ~IsObject(current) THEN "TypeError"
  ELSE IF ~In(Head(path), current) THEN "false"
  ELSE hasFrom(Child(current, Head(path)), Tail(path))

CoreHas(tree, path) == hasFrom(tree, normalizePath(path))

\* CoreTupleStore.getBranch / export
CoreGetBranch(tree, path) ==
  IF path = Str(<<>>) THEN structuredClone(tree)
  ELSE LET branch == getNestedValue(tree, normalizePath(path))
       IN IF branch = Undefined THEN EmptyObject
          ELSE IF IsObject(branch) THEN structuredClone(branch) ELSE branch

CoreExport(tree, path) == CoreGetBranch(tree, path)

\* CoreTupleStore.set: the tree afterwards (the call always returns true)
CoreSet(tree, path, value) == setNestedValue(tree, normalizePath(path), value)

\* A CoreTupleStore.delete that returns true whenever the parent is an object
CoreDeleteStructural(tree, path) ==
  LET normalizedPath == normalizePath(path)
      parentPath == SubSeq(normalizedPath, 1, Len(normalizedPath) - 1)
      key == normalizedPath[Len(normalizedPath)]
      parent == IF parentPath = <<>> THEN tree ELSE getNestedValue(tree, parentPath)
  IN IF normalizedPath = <<>> THEN [tree |-> tree, result |-> FALSE]
     ELSE IF parent = Undefined \/ parent = Null \/ ~IsObject(parent)
     THEN [tree |-> tree, result |-> FALSE]
     ELSE [tree |-> IF parentPath = <<>> THEN Remove(tree, key)
                    ELSE setNestedValue(tree, parentPath, Remove(parent, key)),
           result |-> TRUE]

\* CoreTupleStore.delete: the tree afterwards and the value returned
CoreDelete(tree, path) ==
  LET normalizedPath == normalizePath(path)
      parentPath == SubSeq(normalizedPath, 1, Len(normalizedPath) - 1)
      key == normalizedPath[Len(normalizedPath)]
      parent == IF parentPath = <<>> THEN tree ELSE getNestedValue(tree, parentPath)
  IN IF normalizedPath = <<>> THEN [tree |-> tree, result |-> FALSE]
     ELSE IF parent = Undefined \/ parent = Null \/ ~IsObject(parent)
     THEN [tree |-> tree, result |-> FALSE]
     ELSE [tree |-> IF parentPath = <<>> THEN Remove(tree, key)
                    ELSE setNestedValue(tree, parentPath, Remove(parent, key)),
           result |-> In(key, parent)]

\* CoreTupleStore.clear
CoreClear == EmptyObject

\* An import that, told not to reset, assigns the top-level keys of the data
\* over the tree and keeps the other keys of the tree
CoreImportAssigning(tree, importData, reset) ==
  IF reset THEN structuredClone(importData)
  ELSE LET kept == {p \in DOMAIN tree : p # <<>> /\ <<p[1]>> \notin DOMAIN importData}
       IN [p \in DOMAIN importData \cup kept |->
             IF p \in DOMAIN importData THEN importData[p] ELSE tree[p]]

\* A CoreTupleStore.import that, when it has not reset, keeps the keys of the
\* tree that the data does not hold
CoreImportMerging(tree, importData, reset) ==
  LET cleared == IF reset THEN CoreClear ELSE tree
  IN [p \in DOMAIN cleared \cup DOMAIN importData |->
        IF p \in DOMAIN importData THEN importData[p] ELSE cleared[p]]

\* CoreTupleStore.import: reset or not, the tree becomes a copy of the data
CoreImport(tree, importData, reset) ==
  LET cleared == IF reset THEN CoreClear ELSE tree
  IN structuredClone(importData)

\* Object.keys(obj) in one fixed order (the store enumerates in insertion order,
\* which a value does not record)
KeySeq(obj) ==
  LET ks == Keys(obj)
  IN CHOOSE s \in [1..Cardinality(ks) -> ks] : {s[i] : i \in 1..Cardinality(ks)} = ks

\* CoreTupleStore.find: the helper search, and its loops over Object.keys
RECURSIVE search(_, _, _, _)
RECURSIVE searchStar(_, _, _, _, _)
RECURSIVE searchStarStar(_, _, _, _, _)
\* A loop over the keys at * that stops after the first key
searchStarFirstKey(obj, keys, currentPath, patternIndex, patternParts) ==
  IF keys = <<>> THEN <<>>
  ELSE search(Child(obj, Head(keys)), Append(currentPath, Head(keys)),
              patternIndex + 1, patternParts)

search(obj, currentPath, patternIndex, patternParts) ==
  IF patternIndex > Len(patternParts) THEN <<Join(currentPath)>>
  ELSE LET part == patternParts[patternIndex]
       IN IF part = Star
          THEN IF IsObject(obj)
               THEN searchStar(obj, KeySeq(obj), currentPath, patternIndex, patternParts)
               ELSE <<>>
          ELSE IF part = StarStar
          THEN <<Join(currentPath)>> \o
               (IF IsObject(obj)
                THEN searchStarStar(obj, KeySeq(obj), currentPath, patternIndex, patternParts)
                ELSE <<>>)
          ELSE IF IsObject(obj) /\ In(part, obj)
          THEN search(Child(obj, part), Append(currentPath, part), patternIndex + 1, patternParts)
          ELSE <<>>
searchStar(obj, keys, currentPath, patternIndex, patternParts) ==
  IF keys = <<>> THEN <<>>
  ELSE search(Child(obj, Head(keys)), Append(currentPath, Head(keys)),
              patternIndex + 1, patternParts)
       \o searchStar(obj, Tail(keys), currentPath, patternIndex, patternParts)
searchStarStar(obj, keys, currentPath, patternIndex, patternParts) ==
  IF keys = <<>> THEN <<>>
  ELSE search(Child(obj, Head(keys)), Append(currentPath, Head(keys)),
              patternIndex, patternParts)
       \o search(Child(obj, Head(keys)), Append(currentPath, Head(keys)),
                 patternIndex + 1, patternParts)
       \o searchStarStar(obj, Tail(keys), currentPath, patternIndex, patternParts)

CoreFind(tree, pattern) == search(tree, <<>>, 1, normalizePath(pattern))

\* ---------------------------------------------------------------- matchesPattern

\* The source text of the regular expression: dots escaped, then ** replaced,
\* then every * that is left (those of the ".*" just written included)
regexPattern(pattern) ==
  ReplaceAll(ReplaceAll(ReplaceAll(pattern, <<".">>, <<"\\", ".">>),
                        <<"*", "*">>, <<".", "*">>),
             <<"*">>, <<"[", "^", ".", "]", "+">>)

\* new RegExp(source): \c is the character c, . is any character, [^.]+ is one
\* or more characters other than a dot, any other character is itself
RECURSIVE RegExpOf(_)
RegExpOf(src) ==
  IF src = <<>> THEN <<>>
  ELSE IF Head(src) = "\\" /\ Len(src) >= 2
  THEN <<[t |-> "lit", c |-> src[2]]>> \o RegExpOf(SubSeq(src, 3, Len(src)))
  ELSE IF StartsWith(src, <<"[", "^", ".", "]", "+">>)
  THEN <<[t |-> "plusNotDot", c |-> ""]>> \o RegExpOf(SubSeq(src, 6, Len(src)))
  ELSE IF Head(src) = "."
  THEN <<[t |-> "any", c |-> ""]>> \o RegExpOf(Tail(src))
  ELSE <<[t |-> "lit", c |-> Head(src)]>> \o RegExpOf(Tail(src))

\* regex.test(s) for the anchored expression ^...$
RECURSIVE regexTest(_, _)
regexTest(regex, s) ==
  IF regex = <<>> THEN s = <<>>
  ELSE LET tok == Head(regex)
       IN IF tok.t = "lit"
          THEN s # <<>> /\ Head(s) = tok.c /\ regexTest(Tail(regex), Tail(s))
          ELSE IF tok.t = "any"
          THEN s # <<>> /\ regexTest(Tail(regex), Tail(s))
          ELSE \E n \in 1..Len(s) :
                 /\ \A i \in 1..n : s[i] # "."
                 /\ regexTest(Tail(regex), SubSeq(s, n + 1, Len(s)))

\* A matchesPattern that reads a closing .* as it reads a closing .**
matchesPatternStarDeep(path, pattern) ==
  IF EndsWith(pattern, <<".", "*", "*">>)
  THEN LET prefix == SubSeq(pattern, 1, Len(pattern) - 3)
       IN path = prefix \/ StartsWith(path, prefix \o <<".">>)
  ELSE IF EndsWith(pattern, <<".", "*">>)
  THEN LET prefix == SubSeq(pattern, 1, Len(pattern) - 2)
       IN path = prefix \/ StartsWith(path, prefix \o <<".">>)
  ELSE regexTest(RegExpOf(regexPattern(pattern)), path)

\* A matchesPattern that takes the prefix of .** without the dot after it
matchesPatternBarePrefix(path, pattern) ==
  IF EndsWith(pattern, <<".", "*", "*">>)
  THEN LET prefix == SubSeq(pattern, 1, Len(pattern) - 3)
       IN StartsWith(path, prefix)
  ELSE regexTest(RegExpOf(regexPattern(pattern)), path)

\* ObservableTupleStore.matchesPattern
matchesPattern(path, pattern) ==
  IF EndsWith(pattern, <<".", "*", "*">>)
  THEN LET prefix == SubSeq(pattern, 1, Len(pattern) - 3)
       IN path = prefix \/ StartsWith(path, prefix \o <<".">>)
  ELSE regexTest(RegExpOf(regexPattern(pattern)), path)

\* ---------------------------------------------------------------- state

VARIABLES
  data,                \* CoreTupleStore.data, the one tree every layer shares
  journal,             \* JournaledTupleStore.journal
  journalEnabled,      \* JournaledTupleStore.journalEnabled
  currentTransaction,  \* JournaledTupleStore.currentTransaction: 0 for null
  txOps,               \* the Transaction objects made so far: txOps[t] is the
                       \* operations array of transaction t
  subscribers,         \* ObservableTupleStore.subscribers, in insertion order
  handles,             \* the cancellation handles subscribe has returned, in
                       \* order, each with whether it has been invoked
  calls,               \* the callback invocations made by the last call
  last,                \* the last call: its arguments and its result
  found,               \* the paths the last call returned, when it was find
  returned,            \* the value the last call returned, when it was get,
                       \* getBranch or export
  txBase,              \* history: the tree when the transaction began that is
                       \* open or that the last call ended
  txCalls,             \* history: the set, delete, clear and import calls made
                       \* inside that transaction
  log,                 \* history: the entries handed to the journal since it
                       \* was last emptied
  steps                \* the number of calls made

vars == <<data, journal, journalEnabled, currentTransaction, txOps, subscribers,
          handles, calls, last, found, returned, txBase, txCalls, log, steps>>

\* options.maxJournalEntries, given to the constructor
maxJournalEntries == 2

\* the number of calls a behaviour makes
MaxSteps == 4

NoTx == 0

\* TupleStoreOptions as the handlers read them: journal is options.journal !==
\* false, silent is options.silent === true, transaction is
\* options.transaction (NoTx when absent), reset is options.reset !== false,
\* clearJournal is options.clearJournal !== false
DefaultOptions ==
  [journal |-> TRUE, silent |-> FALSE, transaction |-> NoTx, reset |-> TRUE,
   clearJournal |-> TRUE]

\* A JournalEntry; a field the entry does not carry reads undefined.  The
\* operations of a transaction entry are the array of the Transaction object
\* id, which the entry shares with the store.
JournalEntry(type, path, value, oldValue, importData, id, previousState) ==
  [type |-> type, path |-> path, value |-> value, oldValue |-> oldValue,
   data |-> importData, id |-> id, previousState |-> previousState]

EntryOperations(entry) == txOps[entry.id]

\* What a call leaves behind: the fields of the stores, the value returned
\* ("true", "false", or "Error" when the call throws), the callbacks invoked,
\* and for the history variables the entries handed to addJournalEntry and
\* whether the journal was emptied first.
Same ==
  [data |-> data, journal |-> journal, journalEnabled |-> journalEnabled,
   currentTransaction |-> currentTransaction, txOps |-> txOps,
   result |-> "true", calls |-> <<>>, submitted |-> <<>>, cleared |-> FALSE]

\* ---------------------------------------------------------------- JournaledTupleStore

\* An addJournalEntry that drops the new entry when the journal is full
addJournalEntryKeepingOldest(jrn, entry) ==
  IF ~journalEnabled THEN jrn
  ELSE LET pushed == Append(jrn, entry)
       IN IF Len(pushed) > maxJournalEntries
          THEN SubSeq(pushed, 1, maxJournalEntries)
          ELSE pushed

\* JournaledTupleStore.addJournalEntry: the journal afterwards
addJournalEntry(jrn, entry) ==
  IF ~journalEnabled THEN jrn
  ELSE LET pushed == Append(jrn, entry)
       IN IF Len(pushed) > maxJournalEntries
          THEN SubSeq(pushed, Len(pushed) - maxJournalEntries + 1, Len(pushed))
          ELSE pushed

\* JournaledTupleStore.set
JournaledSet(path, value, options) ==
  LET jrn == options.journal /\ journalEnabled
      transaction == IF options.transaction # NoTx THEN options.transaction
                     ELSE currentTransaction
      oldValue == CoreGet(data, path)
      entry == JournalEntry("set", normalizePath(path), value, oldValue,
                            Undefined, NoTx, Undefined)
      operation == [type |-> "set", path |-> normalizePath(path), value |-> value,
                    oldValue |-> oldValue]
      stored == [Same EXCEPT !.data = CoreSet(data, path, value)]
  IN IF jrn /\ transaction = NoTx /\ options.journal
     THEN [stored EXCEPT !.journal = addJournalEntry(journal, entry),
                         !.submitted = <<entry>>]
     ELSE IF transaction # NoTx
     THEN [stored EXCEPT !.txOps[transaction] = Append(@, operation)]
     ELSE stored

\* A JournaledTupleStore.delete that goes on to the journal and the transaction
\* whatever the store below has returned
JournaledDeleteRecordingFailures(st, path, options) ==
  LET jrn == options.journal /\ journalEnabled
      transaction == IF options.transaction # NoTx THEN options.transaction
                     ELSE st.currentTransaction
      oldValue == CoreGet(st.data, path)
      deleted == CoreDelete(st.data, path)
      entry == JournalEntry("delete", normalizePath(path), Undefined, oldValue,
                            Undefined, NoTx, Undefined)
      operation == [type |-> "delete", path |-> normalizePath(path),
                    value |-> Undefined, oldValue |-> oldValue]
      stored == [st EXCEPT !.data = deleted.tree,
                           !.result = IF deleted.result THEN "true" ELSE "false"]
  IN IF jrn /\ transaction = NoTx /\ options.journal
     THEN [stored EXCEPT !.journal = addJournalEntry(st.journal, entry),
                         !.submitted = Append(st.submitted, entry)]
     ELSE IF transaction # NoTx
     THEN [stored EXCEPT !.txOps[transaction] = Append(@, operation)]
     ELSE stored

\* JournaledTupleStore.delete, called when an earlier call has left st
JournaledDeleteFrom(st, path, options) ==
  LET jrn == options.journal /\ journalEnabled
      transaction == IF options.transaction # NoTx THEN options.transaction
                     ELSE st.currentTransaction
      oldValue == CoreGet(st.data, path)
      deleted == CoreDelete(st.data, path)
      entry == JournalEntry("delete", normalizePath(path), Undefined, oldValue,
                            Undefined, NoTx, Undefined)
      operation == [type |-> "delete", path |-> normalizePath(path),
                    value |-> Undefined, oldValue |-> oldValue]
      stored == [st EXCEPT !.data = deleted.tree, !.result = "true"]
  IN IF ~deleted.result THEN [stored EXCEPT !.result = "false"]
     ELSE IF jrn /\ transaction = NoTx /\ options.journal
     THEN [stored EXCEPT !.journal = addJournalEntry(st.journal, entry),
                         !.submitted = Append(st.submitted, entry)]
     ELSE IF transaction # NoTx
     THEN [stored EXCEPT !.txOps[transaction] = Append(@, operation)]
     ELSE stored

\* JournaledTupleStore.delete
JournaledDelete(path, options) == JournaledDeleteFrom(Same, path, options)

\* A JournaledTupleStore.clear that takes its snapshot after it has cleared the
\* store and keeps the journal
JournaledClearSnapshotAfter(options) ==
  LET jrn == options.journal /\ journalEnabled
      snapshot == IF jrn THEN CoreExport(CoreClear, Str(<<>>)) ELSE Null
      entry == JournalEntry("clear", <<>>, Undefined, Undefined, Undefined, NoTx,
                            snapshot)
      cleared == [Same EXCEPT !.data = CoreClear]
  IN IF jrn /\ options.journal
     THEN [cleared EXCEPT !.journal = addJournalEntry(journal, entry),
                          !.submitted = <<entry>>]
     ELSE cleared

\* JournaledTupleStore.clear
JournaledClear(options) ==
  LET jrn == options.journal /\ journalEnabled
      snapshot == IF jrn THEN CoreExport(data, Str(<<>>)) ELSE Null
      emptied == IF options.clearJournal THEN <<>> ELSE journal
      entry == JournalEntry("clear", <<>>, Undefined, Undefined, Undefined, NoTx,
                            snapshot)
      cleared == [Same EXCEPT !.data = CoreClear, !.journal = emptied,
                              !.cleared = options.clearJournal]
  IN IF jrn /\ options.journal
     THEN [cleared EXCEPT !.journal = addJournalEntry(emptied, entry),
                          !.submitted = <<entry>>]
     ELSE cleared

\* A JournaledTupleStore.import that, when reset is asked for, clears through
\* the journaled clear first
JournaledImportClearing(importData, options) ==
  LET jrn == options.journal /\ journalEnabled
      entry == JournalEntry("import", <<>>, Undefined, Undefined, importData, NoTx,
                            Undefined)
      cleared == IF options.reset THEN JournaledClear(options) ELSE Same
      imported == [cleared EXCEPT !.data = CoreImport(data, importData, options.reset)]
  IN IF jrn /\ options.journal
     THEN [imported EXCEPT !.journal = addJournalEntry(cleared.journal, entry),
                           !.submitted = cleared.submitted \o <<entry>>]
     ELSE imported

\* JournaledTupleStore.import
JournaledImport(importData, options) ==
  LET jrn == options.journal /\ journalEnabled
      entry == JournalEntry("import", <<>>, Undefined, Undefined, importData, NoTx,
                            Undefined)
      imported == [Same EXCEPT !.data = CoreImport(data, importData, options.reset)]
  IN IF jrn /\ options.journal
     THEN [imported EXCEPT !.journal = addJournalEntry(journal, entry),
                           !.submitted = <<entry>>]
     ELSE imported

\* A beginTransaction that hands out the Transaction object of the last
\* transaction again when there is one
beginTransactionReusing ==
  IF currentTransaction # NoTx THEN [Same EXCEPT !.result = "Error"]
  ELSE IF txOps # <<>>
  THEN [Same EXCEPT !.currentTransaction = Len(txOps), !.result = "transaction"]
  ELSE [Same EXCEPT !.txOps = Append(txOps, <<>>),
                    !.currentTransaction = Len(txOps) + 1,
                    !.result = "transaction"]

\* JournaledTupleStore.beginTransaction: the new Transaction object is the
\* next one of txOps
beginTransaction ==
  IF currentTransaction # NoTx THEN [Same EXCEPT !.result = "Error"]
  ELSE [Same EXCEPT !.txOps = Append(txOps, <<>>),
                    !.currentTransaction = Len(txOps) + 1,
                    !.result = "transaction"]

\* A commitTransaction that does not compare the handle with the current
\* transaction
commitTransactionUnchecked(arg) ==
  LET transaction == IF arg = NoTx THEN currentTransaction ELSE arg
      entry == JournalEntry("transaction", <<>>, Undefined, Undefined, Undefined,
                            transaction, Undefined)
  IN IF transaction = NoTx THEN [Same EXCEPT !.result = "Error"]
     ELSE IF journalEnabled
     THEN [Same EXCEPT !.journal = addJournalEntry(journal, entry),
                       !.submitted = <<entry>>,
                       !.currentTransaction = NoTx]
     ELSE [Same EXCEPT !.currentTransaction = NoTx]

\* JournaledTupleStore.commitTransaction; arg is the handle given, NoTx when
\* the argument is left out
commitTransaction(arg) ==
  LET transaction == IF arg = NoTx THEN currentTransaction ELSE arg
      entry == JournalEntry("transaction", <<>>, Undefined, Undefined, Undefined,
                            transaction, Undefined)
  IN IF transaction = NoTx THEN [Same EXCEPT !.result = "Error"]
     ELSE IF transaction # currentTransaction THEN [Same EXCEPT !.result = "Error"]
     ELSE IF journalEnabled
     THEN [Same EXCEPT !.journal = addJournalEntry(journal, entry),
                       !.submitted = <<entry>>,
                       !.currentTransaction = NoTx]
     ELSE [Same EXCEPT !.currentTransaction = NoTx]

\* The loop of rollbackTransaction: the tree after the operations have been
\* reversed, the last one first
RECURSIVE reverseOperations(_, _)
reverseOperations(tree, operations) ==
  IF operations = <<>> THEN tree
  ELSE LET operation == operations[Len(operations)]
           restored ==
             IF operation.type = "set"
             THEN CoreSet(tree, Arr(operation.path), operation.oldValue)
             ELSE IF operation.type = "delete" /\ operation.oldValue # Undefined
             THEN CoreSet(tree, Arr(operation.path), operation.oldValue)
             ELSE tree
       IN reverseOperations(restored, SubSeq(operations, 1, Len(operations) - 1))

\* A rollbackTransaction that writes a journal entry for the rollback
rollbackTransactionJournaled(arg) ==
  LET transaction == IF arg = NoTx THEN currentTransaction ELSE arg
      entry == JournalEntry("transaction", <<>>, Undefined, Undefined, Undefined,
                            transaction, Undefined)
  IN IF transaction = NoTx THEN [Same EXCEPT !.result = "Error"]
     ELSE IF transaction # currentTransaction THEN [Same EXCEPT !.result = "Error"]
     ELSE [Same EXCEPT !.data = reverseOperations(data, txOps[transaction]),
                       !.journal = addJournalEntry(journal, entry),
                       !.submitted = <<entry>>,
                       !.currentTransaction = NoTx]

\* JournaledTupleStore.rollbackTransaction
rollbackTransaction(arg) ==
  LET transaction == IF arg = NoTx THEN currentTransaction ELSE arg
  IN IF transaction = NoTx THEN [Same EXCEPT !.result = "Error"]
     ELSE IF transaction # currentTransaction THEN [Same EXCEPT !.result = "Error"]
     ELSE [Same EXCEPT !.data = reverseOperations(data, txOps[transaction]),
                       !.currentTransaction = NoTx]

\* JournaledTupleStore.clearJournal
clearJournal == [Same EXCEPT !.journal = <<>>, !.cleared = TRUE]

\* A setJournaling that keeps the entries when it disables journaling
setJournalingKeeping(enabled) == [Same EXCEPT !.journalEnabled = enabled]

\* JournaledTupleStore.setJournaling
setJournaling(enabled) ==
  IF ~enabled
  THEN [Same EXCEPT !.journalEnabled = enabled, !.journal = <<>>, !.cleared = TRUE]
  ELSE [Same EXCEPT !.journalEnabled = enabled]

\* ---------------------------------------------------------------- ObservableTupleStore

\* subscriberPath.includes("*")
Includes(s, ch) == \E i \in 1..Len(s) : s[i] = ch

\* The callbacks that throw when they are invoked
ThrowingCallbacks == {"cbThrows"}

\* The try block around one invocation has gone to its catch clause
Throws(callback) == callback \in ThrowingCallbacks

\* The invocations of the callbacks of one subscription, with every callback
\* after the first one that throws left out
RECURSIVE UntilThrown(_)
UntilThrown(invocations) ==
  IF invocations = <<>> THEN <<>>
  ELSE IF Head(invocations).threw THEN <<Head(invocations)>>
  ELSE <<Head(invocations)>> \o UntilThrown(Tail(invocations))

\* A notifySubscribers loop body under which a change bubbles: a pattern
\* is also matched by a path below it or above it
notifyOneBubbling(sub, pathString, normalizedPath, newValue, oldValue) ==
  IF sub.pattern = pathString
     \/ (Includes(sub.pattern, "*") /\ matchesPattern(pathString, sub.pattern))
     \/ (/\ Len(sub.pattern) < Len(pathString)
         /\ SubSeq(pathString, 1, Len(sub.pattern) + 1) = sub.pattern \o <<".">>)
     \/ (/\ Len(pathString) < Len(sub.pattern)
         /\ SubSeq(sub.pattern, 1, Len(pathString) + 1) = pathString \o <<".">>)
  THEN [i \in 1..Len(sub.callbacks) |->
          [callback |-> sub.callbacks[i], subscriberPath |-> sub.pattern,
           newValue |-> newValue, oldValue |-> oldValue, path |-> normalizedPath,
           threw |-> Throws(sub.callbacks[i])]]
  ELSE <<>>

\* A loop body of notifySubscribers without the try block: the callbacks of the
\* subscription after one that throws are not invoked
notifyOneUncaught(sub, pathString, normalizedPath, newValue, oldValue) ==
  IF sub.pattern = pathString
     \/ (Includes(sub.pattern, "*") /\ matchesPattern(pathString, sub.pattern))
  THEN UntilThrown([i \in 1..Len(sub.callbacks) |->
          [callback |-> sub.callbacks[i], subscriberPath |-> sub.pattern,
           newValue |-> newValue, oldValue |-> oldValue, path |-> normalizedPath,
           threw |-> Throws(sub.callbacks[i])]])
  ELSE <<>>

\* The body of the loop of notifySubscribers for one entry of the map: the
\* invocations made, one for each callback of a subscription that is notified;
\* an invocation that throws is caught, and threw is what the catch clause
\* reports
notifyOne(sub, pathString, normalizedPath, newValue, oldValue) ==
  IF sub.pattern = pathString
     \/ (Includes(sub.pattern, "*") /\ matchesPattern(pathString, sub.pattern))
  THEN [i \in 1..Len(sub.callbacks) |->
          [callback |-> sub.callbacks[i], subscriberPath |-> sub.pattern,
           newValue |-> newValue, oldValue |-> oldValue, path |-> normalizedPath,
           threw |-> Throws(sub.callbacks[i])]]
  ELSE <<>>

RECURSIVE notifyFrom(_, _, _, _, _)
notifyFrom(subs, pathString, normalizedPath, newValue, oldValue) ==
  IF subs = <<>> THEN <<>>
  ELSE notifyOne(Head(subs), pathString, normalizedPath, newValue, oldValue)
       \o notifyFrom(Tail(subs), pathString, normalizedPath, newValue, oldValue)

\* ObservableTupleStore.notifySubscribers: the invocations made, in order.  A
\* callback that throws is caught and the loop goes on.
notifySubscribers(path, newValue, oldValue) ==
  LET normalizedPath == IF path.array THEN path.parts ELSE normalizePath(path)
      pathString == Join(normalizedPath)
  IN notifyFrom(subscribers, pathString, normalizedPath, newValue, oldValue)

\* The invocations, each with what its callback finds in the stores when it is
\* invoked: the handlers notify once the store below has returned, and eff is
\* what it has left
Seeing(invocations, eff) ==
  [i \in 1..Len(invocations) |->
     invocations[i] @@ [tree |-> eff.data, journal |-> eff.journal]]

\* An ObservableTupleStore.set that notifies whatever the silent option says
ObservableSetLoud(path, value, options) ==
  LET oldValue == CoreGet(data, path)
      stored == JournaledSet(path, value, options)
  IN IF stored.result = "true"
     THEN [stored EXCEPT
             !.calls = Seeing(notifySubscribers(path, value, oldValue), stored)]
     ELSE stored

\* An ObservableTupleStore.set that notifies before it hands the write to the
\* store below
ObservableSetNotifyingFirst(path, value, options) ==
  LET silent == options.silent
      oldValue == CoreGet(data, path)
      stored == JournaledSet(path, value, options)
  IN IF stored.result = "true" /\ ~silent
     THEN [stored EXCEPT
             !.calls = Seeing(notifySubscribers(path, value, oldValue), Same)]
     ELSE stored

\* An ObservableTupleStore.set that keeps a silent write out of the journal too
ObservableSetSilentUnjournaled(path, value, options) ==
  LET silent == options.silent
      oldValue == CoreGet(data, path)
      stored == JournaledSet(path, value,
                             [options EXCEPT !.journal = options.journal /\ ~silent])
  IN IF stored.result = "true" /\ ~silent
     THEN [stored EXCEPT
             !.calls = Seeing(notifySubscribers(path, value, oldValue), stored)]
     ELSE stored

\* An ObservableTupleStore.set that reads the old value after the write
ObservableSetReadingAfter(path, value, options) ==
  LET silent == options.silent
      stored == JournaledSet(path, value, options)
      oldValue == CoreGet(stored.data, path)
  IN IF stored.result = "true" /\ ~silent
     THEN [stored EXCEPT
             !.calls = Seeing(notifySubscribers(path, value, oldValue), stored)]
     ELSE stored

\* ObservableTupleStore.set over a JournaledTupleStore
ObservableSet(path, value, options) ==
  LET silent == options.silent
      oldValue == CoreGet(data, path)
      stored == JournaledSet(path, value, options)
  IN IF stored.result = "true" /\ ~silent
     THEN [stored EXCEPT
             !.calls = Seeing(notifySubscribers(path, value, oldValue), stored)]
     ELSE stored

\* ObservableTupleStore.delete, called when an earlier call has left st
ObservableDeleteFrom(st, path, options) ==
  LET silent == options.silent
      oldValue == CoreGet(st.data, path)
      deleted == JournaledDeleteFrom(st, path, options)
  IN IF deleted.result = "true" /\ ~silent
     THEN [deleted EXCEPT
             !.calls = st.calls
                       \o Seeing(notifySubscribers(path, Undefined, oldValue), deleted)]
     ELSE deleted

\* ObservableTupleStore.delete
ObservableDelete(path, options) == ObservableDeleteFrom(Same, path, options)

\* An ObservableTupleStore.import that also notifies at the key a
ObservableImportPerKey(importData, options) ==
  LET silent == options.silent
      oldState == IF silent THEN Null ELSE CoreExport(data, Str(<<>>))
      imported == JournaledImport(importData, options)
  IN IF imported.result = "true" /\ ~silent
     THEN [imported EXCEPT
             !.calls = Seeing(notifySubscribers(Str(<<>>),
                                                CoreExport(imported.data, Str(<<>>)),
                                                oldState)
                              \o notifySubscribers(Str(<<"a">>),
                                                   CoreGet(imported.data, Str(<<"a">>)),
                                                   CoreGet(data, Str(<<"a">>))),
                              imported)]
     ELSE imported

\* ObservableTupleStore.import
ObservableImport(importData, options) ==
  LET silent == options.silent
      oldState == IF silent THEN Null ELSE CoreExport(data, Str(<<>>))
      imported == JournaledImport(importData, options)
  IN IF imported.result = "true" /\ ~silent
     THEN [imported EXCEPT
             !.calls = Seeing(notifySubscribers(Str(<<>>),
                                                CoreExport(imported.data, Str(<<>>)),
                                                oldState),
                              imported)]
     ELSE imported

\* ObservableTupleStore.clear
ObservableClear(options) ==
  LET silent == options.silent
      oldState == IF silent THEN Null ELSE CoreExport(data, Str(<<>>))
      cleared == JournaledClear(options)
  IN IF cleared.result = "true" /\ ~silent
     THEN [cleared EXCEPT
             !.calls = Seeing(notifySubscribers(Str(<<>>), EmptyObject, oldState), cleared)]
     ELSE cleared

\* The key subscribe registers under: the array joined, or the string
subscriberKey(path) == IF path.array THEN Join(path.parts) ELSE path.s

PatternIndex(subs, pattern) ==
  IF \E i \in 1..Len(subs) : subs[i].pattern = pattern
  THEN CHOOSE i \in 1..Len(subs) : subs[i].pattern = pattern
  ELSE 0

RemoveAt(seq, i) == SubSeq(seq, 1, i - 1) \o SubSeq(seq, i + 1, Len(seq))

\* ObservableTupleStore.subscribe: the map afterwards.  A Set holds a callback
\* once, however often it is added.
subscribe(path, callback) ==
  LET normalizedPath == subscriberKey(path)
      at == PatternIndex(subscribers, normalizedPath)
  IN IF at = 0
     THEN Append(subscribers, [pattern |-> normalizedPath, callbacks |-> <<callback>>])
     ELSE IF \E i \in 1..Len(subscribers[at].callbacks) :
               subscribers[at].callbacks[i] = callback
     THEN subscribers
     ELSE [subscribers EXCEPT ![at].callbacks = Append(@, callback)]

\* The function subscribe returns, called: the map afterwards
unsubscribe(handle) ==
  LET at == PatternIndex(subscribers, handle.pattern)
      handlers == IF at = 0 THEN <<>> ELSE subscribers[at].callbacks
      kept == SelectSeq(handlers, LAMBDA c : c # handle.callback)
  IN IF at = 0 THEN subscribers
     ELSE IF kept = <<>> THEN RemoveAt(subscribers, at)
     ELSE [subscribers EXCEPT ![at].callbacks = kept]

\* ---------------------------------------------------------------- calls

\* The layers of the stack Observable(Journaled(Core)); a caller may hold any
\* of them, and each delegates to the one below with the same arguments
Layers == {"core", "journaled", "observable"}

SetAt(layer, path, value, options) ==
  IF layer = "core" THEN [Same EXCEPT !.data = CoreSet(data, path, value)]
  ELSE IF layer = "journaled" THEN JournaledSet(path, value, options)
  ELSE ObservableSet(path, value, options)

\* delete through a layer, called when an earlier call has left st
DeleteFrom(layer, st, path, options) ==
  IF layer = "core"
  THEN [st EXCEPT !.data = CoreDelete(st.data, path).tree,
                  !.result = IF CoreDelete(st.data, path).result THEN "true" ELSE "false"]
  ELSE IF layer = "journaled" THEN JournaledDeleteFrom(st, path, options)
  ELSE ObservableDeleteFrom(st, path, options)

DeleteAt(layer, path, options) == DeleteFrom(layer, Same, path, options)

ClearAt(layer, options) ==
  IF layer = "core" THEN [Same EXCEPT !.data = CoreClear]
  ELSE IF layer = "journaled" THEN JournaledClear(options)
  ELSE ObservableClear(options)

ImportAt(layer, importData, options) ==
  IF layer = "core"
  THEN [Same EXCEPT !.data = CoreImport(data, importData, options.reset)]
  ELSE IF layer = "journaled" THEN JournaledImport(importData, options)
  ELSE ObservableImport(importData, options)

\* The record of a call kept in last
Call(op, layer, path, value, options, arg) ==
  [op |-> op, layer |-> layer, path |-> path, value |-> value, options |-> options,
   arg |-> arg, result |-> "true",
   old |-> IF op \in {"set", "delete"} THEN CoreGet(data, path) ELSE Undefined]

NoPath == Str(<<>>)

\* A call to a store: its effect on the stores, and the history variables
Apply(eff, call) ==
  /\ steps < MaxSteps
  /\ data' = eff.data
  /\ journal' = eff.journal
  /\ journalEnabled' = eff.journalEnabled
  /\ currentTransaction' = eff.currentTransaction
  /\ txOps' = eff.txOps
  /\ calls' = eff.calls
  /\ last' = [call EXCEPT !.result = eff.result]
  /\ found' = <<>>
  /\ returned' = Undefined
  /\ txBase' = IF eff.result = "transaction" THEN data
               ELSE IF currentTransaction = NoTx THEN EmptyObject
               ELSE txBase
  /\ txCalls' = IF currentTransaction = NoTx THEN <<>>
                ELSE IF call.op \in {"set", "delete", "clear", "import"}
                THEN Append(txCalls, [call EXCEPT !.result = eff.result])
                ELSE txCalls
  /\ log' = (IF eff.cleared THEN <<>> ELSE log) \o eff.submitted
  /\ steps' = steps + 1
  /\ UNCHANGED <<subscribers, handles>>

Set(layer, path, value, options) ==
  Apply(SetAt(layer, path, value, options),
        Call("set", layer, path, value, options, NoTx))

Delete(layer, path, options) ==
  Apply(DeleteAt(layer, path, options),
        Call("delete", layer, path, Undefined, options, NoTx))

Clear(layer, options) ==
  Apply(ClearAt(layer, options),
        Call("clear", layer, NoPath, Undefined, options, NoTx))

Import(layer, importData, options) ==
  Apply(ImportAt(layer, importData, options),
        Call("import", layer, NoPath, importData, options, NoTx))

BeginTransaction ==
  Apply(beginTransaction,
        Call("beginTransaction", "journaled", NoPath, Undefined, DefaultOptions, NoTx))

CommitTransaction(arg) ==
  Apply(commitTransaction(arg),
        Call("commitTransaction", "journaled", NoPath, Undefined, DefaultOptions, arg))

RollbackTransaction(arg) ==
  Apply(rollbackTransaction(arg),
        Call("rollbackTransaction", "journaled", NoPath, Undefined, DefaultOptions, arg))

ClearJournal ==
  Apply(clearJournal,
        Call("clearJournal", "journaled", NoPath, Undefined, DefaultOptions, NoTx))

SetJournaling(enabled) ==
  Apply(setJournaling(enabled),
        Call("setJournaling", "journaled", NoPath, Undefined,
             [DefaultOptions EXCEPT !.journal = enabled], NoTx))

Subscribe(path, callback) ==
  /\ steps < MaxSteps
  /\ subscribers' = subscribe(path, callback)
  /\ handles' = Append(handles, [pattern |-> subscriberKey(path),
                                  callback |-> callback, invoked |-> FALSE])
  /\ calls' = <<>>
  /\ last' = [Call("subscribe", "observable", path, Undefined, DefaultOptions, NoTx)
                EXCEPT !.arg = callback]
  /\ steps' = steps + 1
  /\ found' = <<>>
  /\ returned' = Undefined
  /\ UNCHANGED <<data, journal, journalEnabled, currentTransaction, txOps, txBase,
                 txCalls, log>>

\* The call of the function the handle-th subscribe returned
Unsubscribe(handle) ==
  /\ steps < MaxSteps
  /\ handle \in 1..Len(handles)
  /\ subscribers' = unsubscribe(handles[handle])
  /\ handles' = [handles EXCEPT ![handle].invoked = TRUE]
  /\ calls' = <<>>
  /\ last' = Call("unsubscribe", "observable", Str(handles[handle].pattern), Undefined,
                  DefaultOptions, handle)
  /\ steps' = steps + 1
  /\ found' = <<>>
  /\ returned' = Undefined
  /\ UNCHANGED <<data, journal, journalEnabled, currentTransaction, txOps, txBase,
                 txCalls, log>>

\* A call that reads and hands back a value or a boolean
Read(call, value, result) ==
  /\ steps < MaxSteps
  /\ returned' = value
  /\ last' = [call EXCEPT !.result = result]
  /\ calls' = <<>>
  /\ found' = <<>>
  /\ steps' = steps + 1
  /\ UNCHANGED <<data, journal, journalEnabled, currentTransaction, txOps, txBase,
                 txCalls, log, subscribers, handles>>

\* get, getBranch, export and has, which every layer passes down to the core
\* store
Get(layer, path) ==
  Read(Call("get", layer, path, Undefined, DefaultOptions, NoTx),
       CoreGet(data, path), "true")

GetBranch(layer, path) ==
  Read(Call("getBranch", layer, path, Undefined, DefaultOptions, NoTx),
       CoreGetBranch(data, path), "true")

Export(layer, path) ==
  Read(Call("export", layer, path, Undefined, DefaultOptions, NoTx),
       CoreExport(data, path), "true")

Has(layer, path) ==
  Read(Call("has", layer, path, Undefined, DefaultOptions, NoTx),
       Undefined, CoreHas(data, path))

\* Whether the object a read returns is the object the tree holds, which is
\* what get returns, or a copy of it, which getBranch and export make
SharedWithTree(op) == op = "get"

\* The caller assigns value to the property key of the object the last call
\* returned: an object shared with the tree is changed in the tree
MutateReturned(key, value) ==
  /\ steps < MaxSteps
  /\ last.op \in {"get", "getBranch", "export"}
  /\ IsObject(returned)
  /\ returned' = Put(returned, key, value)
  /\ data' = IF ~SharedWithTree(last.op) THEN data
             ELSE IF normalizePath(last.path) = <<>> THEN Put(data, key, value)
             ELSE setNestedValue(data, Append(normalizePath(last.path), key), value)
  /\ last' = [Call("write", last.layer, last.path, value, DefaultOptions, NoTx)
                EXCEPT !.arg = last.op]
  /\ calls' = <<>>
  /\ found' = <<>>
  /\ steps' = steps + 1
  /\ UNCHANGED <<journal, journalEnabled, currentTransaction, txOps, txBase,
                 txCalls, log, subscribers, handles>>

\* find, which every layer passes down to the core store
Find(pattern) ==
  /\ steps < MaxSteps
  /\ found' = CoreFind(data, pattern)
  /\ calls' = <<>>
  /\ last' = Call("find", "core", pattern, Undefined, DefaultOptions, NoTx)
  /\ steps' = steps + 1
  /\ returned' = Undefined
  /\ UNCHANGED <<data, journal, journalEnabled, currentTransaction, txOps, txBase,
                 txCalls, log, subscribers, handles>>

\* The state after new ObservableTupleStore({store: new JournaledTupleStore(
\* {store: new CoreTupleStore(), journalEnabled: enabled})})
Constructed(enabled) ==
  /\ data = EmptyObject
  /\ journal = <<>>
  /\ journalEnabled = enabled
  /\ currentTransaction = NoTx
  /\ txOps = <<>>
  /\ subscribers = <<>>
  /\ handles = <<>>
  /\ calls = <<>>
  /\ last = Call("new", "observable", NoPath, Undefined, DefaultOptions, NoTx)
  /\ found = <<>>
  /\ returned = Undefined
  /\ txBase = EmptyObject
  /\ txCalls = <<>>
  /\ log = <<>>
  /\ steps = 0

\* ---------------------------------------------------------------- the journaled store

PathA == Str(<<"a">>)
PathAB == Str(<<"a", ".", "b">>)

JournalPaths == {PathA, PathAB}
JournalValues == {Num("1"), EmptyObject}

\* The options of a call to the journaled store: journal: false or not,
\* transaction: a handle beginTransaction has returned or not
JournalOptions ==
  {[DefaultOptions EXCEPT !.journal = j, !.transaction = t] :
     j \in BOOLEAN, t \in 0..Len(txOps)}

Init == Constructed(TRUE)

Next ==
  \/ \E path \in JournalPaths, value \in JournalValues, options \in JournalOptions :
       Set("journaled", path, value, options)
  \/ \E path \in JournalPaths, options \in JournalOptions :
       Delete("journaled", path, options)
  \/ \E options \in {DefaultOptions, [DefaultOptions EXCEPT !.journal = FALSE]} :
       Clear("journaled", options)
  \/ \E options \in {DefaultOptions, [DefaultOptions EXCEPT !.reset = FALSE]} :
       Import("journaled", Put(EmptyObject, <<"a">>, Num("1")), options)
  \/ BeginTransaction
  \/ \E arg \in 0..Len(txOps) : CommitTransaction(arg)
  \/ \E arg \in 0..Len(txOps) : RollbackTransaction(arg)
  \/ ClearJournal
  \/ \E enabled \in BOOLEAN : SetJournaling(enabled)

Spec == Init /\ [][Next]_vars

\* ---------------------------------------------------------------- claims on the journaled store

\* getJournal() as a caller reads it: each entry, and for a transaction entry
\* the operations array it refers to
JournalView ==
  [i \in 1..Len(journal) |->
     [entry |-> journal[i],
      operations |-> IF journal[i].type = "transaction"
                     THEN EntryOperations(journal[i]) ELSE <<>>]]

\* The paths below the root at which the claims read the tree
ProbePaths == JournalPaths \cup {Str(<<"b">>)}

\* The operation record a successful set or delete call is buffered as
OperationOf(call) ==
  [type |-> call.op, path |-> normalizePath(call.path), value |-> call.value,
   oldValue |-> call.old]

\* The successful set and delete calls made inside the transaction, in order
AppliedInTransaction ==
  LET applied == SelectSeq(txCalls, LAMBDA c : c.op \in {"set", "delete"}
                                                /\ c.result = "true")
  IN [i \in 1..Len(applied) |-> OperationOf(applied[i])]

\* A rollback has just succeeded on a transaction in which only set and delete
\* were called, none of them naming another transaction
RolledBackSetsAndDeletes ==
  /\ last.op = "rollbackTransaction"
  /\ last.result = "true"
  /\ \A i \in 1..Len(txCalls) :
       txCalls[i].op \in {"set", "delete"} /\ txCalls[i].options.transaction = NoTx

\* C2: after a rollback of a transaction made of set and delete calls, get(q)
\* is for every path q what it was immediately before beginTransaction.
C2_RollbackRestoresEveryGet ==
  RolledBackSetsAndDeletes =>
    \A q \in ProbePaths : CoreGet(data, q) = CoreGet(txBase, q)

Suffix(seq, n) == SubSeq(seq, Len(seq) - n + 1, Len(seq))

\* C4: the journal never holds more than maxJournalEntries entries, and it is
\* the most recent maxJournalEntries of the entries appended since it was last
\* emptied (all of them while they are fewer), in the order they were appended.
C4_JournalBound ==
  /\ Len(journal) <= maxJournalEntries
  /\ journal = Suffix(log, IF Len(log) < maxJournalEntries THEN Len(log)
                           ELSE maxJournalEntries)

\* More standalone writes than the journal holds have been journaled
C4_Witness ==
  /\ Len(log) > maxJournalEntries
  /\ \A i \in 1..Len(log) : log[i].type \in {"set", "delete"}
  /\ Len(journal) = maxJournalEntries
  /\ last.op = "set"

\* C5: while a transaction is open a successful set or delete leaves the
\* journal as it was and takes effect on the tree at once; a successful commit
\* with journaling enabled appends exactly one entry, of type transaction,
\* whose operations are the set and delete operations applied since
\* beginTransaction, in order; and commit leaves the tree alone.
C5_TransactionBuffering ==
  [][/\ (currentTransaction # NoTx /\ last'.op = "set" /\ last'.result = "true")
          => (JournalView' = JournalView /\ CoreGet(data', last'.path) = last'.value)
     /\ (currentTransaction # NoTx /\ last'.op = "delete" /\ last'.result = "true")
          => (JournalView' = JournalView /\ CoreHas(data', last'.path) = "false")
     /\ (last'.op = "commitTransaction" /\ last'.result = "true" /\ journalEnabled)
          => /\ Len(log') = Len(log) + 1
             /\ journal'[Len(journal')] = log'[Len(log')]
             /\ journal'[Len(journal')].type = "transaction"
             /\ JournalView'[Len(journal')].operations = AppliedInTransaction
             /\ data' = data
    ]_vars

\* The call just made broke the transaction discipline
Undisciplined(call) ==
  \/ call.op = "beginTransaction" /\ currentTransaction # NoTx
  \/ /\ call.op \in {"commitTransaction", "rollbackTransaction"}
     /\ \/ call.arg = NoTx /\ currentTransaction = NoTx
        \/ call.arg # NoTx /\ call.arg # currentTransaction

\* C6: a call that breaks the transaction discipline raises an error and leaves
\* the tree, the journal and the current transaction with its buffered
\* operations as they were.
C6_DisciplineViolationsFail ==
  [][Undisciplined(last') =>
       /\ last'.result = "Error"
       /\ data' = data
       /\ JournalView' = JournalView
       /\ currentTransaction' = currentTransaction
       /\ txOps' = txOps
    ]_vars

\* A commit given the handle of an earlier transaction, while another is open,
\* has raised its error
C6_Witness ==
  /\ last.op = "commitTransaction"
  /\ last.result = "Error"
  /\ last.arg # NoTx
  /\ currentTransaction # NoTx
  /\ last.arg # currentTransaction

\* C7: the current transaction changes only from none to a new transaction
\* with no buffered operation, by a beginTransaction that then succeeds, and
\* from a transaction to none, by a successful commit or rollback; after a
\* successful commit or rollback none is current.
C7_TransactionStateMachine ==
  [][/\ (last'.op = "beginTransaction" /\ currentTransaction = NoTx)
          => /\ last'.result = "transaction"
             /\ currentTransaction' \in (1..Len(txOps')) \ (1..Len(txOps))
             /\ txOps'[currentTransaction'] = <<>>
     /\ (last'.op \in {"commitTransaction", "rollbackTransaction"}
         /\ last'.result = "true")
          => currentTransaction # NoTx /\ currentTransaction' = NoTx
     /\ (currentTransaction' # currentTransaction)
          => \/ currentTransaction = NoTx /\ last'.op = "beginTransaction"
             \/ /\ currentTransaction' = NoTx
                /\ last'.op \in {"commitTransaction", "rollbackTransaction"}
    ]_vars

\* A second transaction has been begun after the first was committed
C7_Witness ==
  /\ last.op = "beginTransaction"
  /\ last.result = "transaction"
  /\ currentTransaction = 2
  /\ txOps[currentTransaction] = <<>>
  /\ Len(journal) >= 1
  /\ journal[Len(journal)].type = "transaction"

\* ---------------------------------------------------------------- set through every layer

PathABC == Str(<<"a", ".", "b", ".", "c">>)
ObjectB1 == Put(EmptyObject, <<"b">>, Num("1"))

StackPaths == {PathA, PathAB, PathABC, Arr(<<<<"a">>, <<"b">>>>)}
StackValues == {Num("1"), Null, ObjectB1}

\* the number of calls a behaviour of SpecStack makes
MaxStackSteps == 3

InitStack == \E enabled \in BOOLEAN : Constructed(enabled)

NextStack ==
  \/ \E layer \in Layers, path \in StackPaths, value \in StackValues :
       steps < MaxStackSteps /\ Set(layer, path, value, DefaultOptions)
  \/ \E layer \in Layers, path \in StackPaths :
       steps < MaxStackSteps /\ Delete(layer, path, DefaultOptions)

SpecStack == InitStack /\ [][NextStack]_vars

\* C1: after set(p, v) on a path p below the root, made through any layer,
\* the call has returned true, get(p) is v and has(p) is true.
C1_SetThenGetAndHas ==
  (last.op = "set" /\ normalizePath(last.path) # <<>>) =>
    /\ last.result = "true"
    /\ CoreGet(data, last.path) = last.value
    /\ CoreHas(data, last.path) = "true"

\* A set through the whole stack has put a map where the journal shows a
\* number was set before
C1_Witness ==
  /\ last.op = "set"
  /\ last.layer = "observable"
  /\ normalizePath(last.path) = <<<<"a">>, <<"b">>, <<"c">>>>
  /\ Len(journal) = 2
  /\ journal[1].path = <<<<"a">>>>
  /\ journal[1].value = Num("1")
  /\ journal[2].oldValue = Undefined
  /\ IsObject(CoreGet(data, PathAB))

\* ---------------------------------------------------------------- find and point-match

\* the number of segments of the patterns given to find
MaxPatternLen == 2

FindSegments == {<<"a">>, <<"b">>, Star, StarStar}
FindPatterns ==
  {Str(Join(parts)) : parts \in UNION {[1..n -> FindSegments] : n \in 1..MaxPatternLen}}
FindPaths == {PathA, PathAB, Str(<<"b">>), Str(<<"a", "b">>)}

InitFind == Constructed(TRUE)

NextFind ==
  \/ \E path \in FindPaths, value \in {Num("1"), EmptyObject} :
       Set("core", path, value, DefaultOptions)
  \/ \E pattern \in FindPatterns : Find(pattern)

SpecFind == InitFind /\ [][NextFind]_vars

\* C3: every path string find(pattern) returns satisfies
\* matchesPattern(path, pattern).
C3_FindAgreesWithPointMatch ==
  last.op = "find" =>
    \A i \in 1..Len(found) : matchesPattern(found[i], last.path.s)

\* ---------------------------------------------------------------- notification

\* the number of calls a behaviour of SpecObservable makes
MaxObservableSteps == 3

Callbacks == {"cb1", "cb2"}
ObservablePatterns ==
  {Str(<<"a", ".", "b">>), Str(<<"a", ".", "*">>), Str(<<"a", ".", "*", "*">>),
   Str(<<"*">>), Arr(<<<<"a">>, Star>>)}
ObservablePaths == {PathA, PathAB, PathABC, Str(<<"a", "b">>), Str(<<"a", "b", ".", "c">>)}
ObservableOptions == {DefaultOptions, [DefaultOptions EXCEPT !.silent = TRUE]}

InitObservable == Constructed(TRUE)

NextObservable ==
  \/ \E pattern \in ObservablePatterns, callback \in Callbacks :
       steps < MaxObservableSteps /\ Subscribe(pattern, callback)
  \/ \E handle \in 1..Len(handles) :
       steps < MaxObservableSteps /\ Unsubscribe(handle)
  \/ \E path \in ObservablePaths, value \in {Num("1"), Num("2")},
        options \in ObservableOptions :
       steps < MaxObservableSteps /\ Set("observable", path, value, options)
  \/ \E path \in ObservablePaths, options \in ObservableOptions :
       steps < MaxObservableSteps /\ Delete("observable", path, options)

SpecObservable == InitObservable /\ [][NextObservable]_vars

\* The last call was a mutation through the observable store that succeeded
\* and was not silent
Notifying(ops) ==
  /\ last.op \in ops
  /\ last.layer = "observable"
  /\ last.result = "true"
  /\ ~last.options.silent

\* The invocations the last call made of callback under pattern
Invocations(pattern, callback) ==
  {i \in 1..Len(calls) :
     calls[i].subscriberPath = pattern /\ calls[i].callback = callback}

Notified(pattern) == \E i \in 1..Len(calls) : calls[i].subscriberPath = pattern

Registered(pattern, callback) ==
  \E s \in 1..Len(subscribers) :
    /\ subscribers[s].pattern = pattern
    /\ \E j \in 1..Len(subscribers[s].callbacks) : subscribers[s].callbacks[j] = callback

\* The handles subscribe has returned
Returned == {handles[h] : h \in 1..Len(handles)}

\* The invocations the last call made of callback, under any pattern
InvocationsOf(callback) ==
  {i \in 1..Len(calls) : calls[i].callback = callback}

\* C8 as stated: on a successful set(p, v) that is not silent, every callback
\* registered under a pattern that equals p or point-matches p is invoked
\* exactly once, with v, the value get(p) had before, and p as segments; a
\* callback registered only under patterns that do not match is not invoked.
C8_SetInvokesEachCallbackOnce ==
  Notifying({"set"}) =>
    LET p == normalizePath(last.path)
    IN \A callback \in Callbacks :
         IF \E h \in Returned :
              /\ Registered(h.pattern, callback)
              /\ (h.pattern = Join(p) \/ matchesPattern(Join(p), h.pattern))
         THEN /\ Cardinality(InvocationsOf(callback)) = 1
              /\ \A i \in InvocationsOf(callback) :
                   /\ calls[i].newValue = last.value
                   /\ calls[i].oldValue = last.old
                   /\ calls[i].path = p
         ELSE InvocationsOf(callback) = {}

\* C8, amended: on a successful set(p, v) that is not silent, each callback is
\* invoked exactly once for each pattern it is registered under that equals p
\* or point-matches p, with v, the value get(p) had before, and p as segments;
\* for a pattern that does not match, no callback is invoked.
C8_SetNotifiesMatching ==
  Notifying({"set"}) =>
    LET p == normalizePath(last.path)
    IN /\ \A pattern \in {h.pattern : h \in Returned}, callback \in Callbacks :
            IF Registered(pattern, callback)
               /\ (pattern = Join(p) \/ matchesPattern(Join(p), pattern))
            THEN /\ Cardinality(Invocations(pattern, callback)) = 1
                 /\ \A i \in Invocations(pattern, callback) :
                      /\ calls[i].newValue = last.value
                      /\ calls[i].oldValue = last.old
                      /\ calls[i].path = p
            ELSE Invocations(pattern, callback) = {}
       /\ \A i \in 1..Len(calls) : Registered(calls[i].subscriberPath, calls[i].callback)

\* Two callbacks under a wildcard pattern and one under a pattern that does
\* not match, and a set that replaced an earlier value
C8_Witness ==
  /\ Notifying({"set"})
  /\ last.old # Undefined
  /\ Len(calls) = 1
  /\ calls[1].subscriberPath = <<"a", ".", "*">>
  /\ calls[1].oldValue = Num("1")
  /\ calls[1].newValue = Num("2")

\* The segments of a pattern
PatternParts(pattern) == normalizePath(Str(pattern))

IsLiteral(segment) == ~Includes(segment, "*")

\* The pattern is literal segments followed by one segment, which is wildcard
LiteralsThen(pattern, wildcard) ==
  LET parts == PatternParts(pattern)
  IN /\ Len(parts) >= 1
     /\ parts[Len(parts)] = wildcard
     /\ \A i \in 1..(Len(parts) - 1) : IsLiteral(parts[i])

IsPrefix(pre, seq) == Len(pre) <= Len(seq) /\ SubSeq(seq, 1, Len(pre)) = pre

\* C9: a subscription to a pattern of literal segments followed by * is
\* notified by a set at a path with exactly one segment below the literal
\* prefix, and by a set at no other path: not deeper, not the prefix itself.
C9_StarMatchesOneLevel ==
  Notifying({"set"}) =>
    \A s \in 1..Len(subscribers) :
      LET pattern == subscribers[s].pattern
          parts == PatternParts(pattern)
          p == normalizePath(last.path)
      IN LiteralsThen(pattern, Star) =>
           (Notified(pattern) <=>
              /\ Len(p) = Len(parts)
              /\ IsPrefix(SubSeq(parts, 1, Len(parts) - 1), p))

\* a.* has been notified by a set at a.b
C9_Witness ==
  /\ Notifying({"set"})
  /\ normalizePath(last.path) = <<<<"a">>, <<"b">>>>
  /\ Notified(<<"a", ".", "*">>)

\* a.* has been left alone by a set at a.b.c
C9_WitnessDeeper ==
  /\ Notifying({"set"})
  /\ normalizePath(last.path) = <<<<"a">>, <<"b">>, <<"c">>>>
  /\ Registered(<<"a", ".", "*">>, "cb1")
  /\ calls = <<>>

\* C10: a subscription to prefix.** with a literal prefix is notified by a
\* mutation at q exactly when q is the prefix or lies below it, at any depth; a
\* sibling whose first key only begins with the prefix does not notify it.
C10_DeepWildcardMatchesSubtree ==
  Notifying({"set", "delete"}) =>
    \A s \in 1..Len(subscribers) :
      LET pattern == subscribers[s].pattern
          parts == PatternParts(pattern)
          q == normalizePath(last.path)
      IN (LiteralsThen(pattern, StarStar) /\ Len(parts) >= 2) =>
           (Notified(pattern) <=> IsPrefix(SubSeq(parts, 1, Len(parts) - 1), q))

\* a.** has been notified by a mutation two levels below a
C10_Witness ==
  /\ Notifying({"set", "delete"})
  /\ normalizePath(last.path) = <<<<"a">>, <<"b">>, <<"c">>>>
  /\ Notified(<<"a", ".", "*", "*">>)

\* ---------------------------------------------------------------- ** in point-match

MatchPatterns ==
  {Str(<<"*", "*">>), Str(<<"a", ".", "*", "*", ".", "b">>), Str(<<"*", "*", ".", "b">>)}
MatchPaths ==
  {PathA, PathAB, Str(<<"a", ".", "x", ".", "b">>),
   Str(<<"a", ".", "x", ".", "y", ".", "b">>), Str(<<"b">>)}

InitMatch == Constructed(TRUE)

NextMatch ==
  \/ \E pattern \in MatchPatterns :
       steps < MaxObservableSteps /\ Subscribe(pattern, "cb1")
  \/ \E path \in MatchPaths :
       steps < MaxObservableSteps /\ Set("observable", path, Num("1"), DefaultOptions)
  \/ steps < MaxObservableSteps /\ Clear("observable", DefaultOptions)

SpecMatch == InitMatch /\ [][NextMatch]_vars

\* The segments of a path match the segments of a pattern, a literal segment
\* matching itself, * any one segment and ** any number of segments
RECURSIVE SegmentsMatch(_, _)
SegmentsMatch(patternParts, pathParts) ==
  IF patternParts = <<>> THEN pathParts = <<>>
  ELSE IF Head(patternParts) = StarStar
  THEN \E n \in 0..Len(pathParts) :
         SegmentsMatch(Tail(patternParts), SubSeq(pathParts, n + 1, Len(pathParts)))
  ELSE /\ pathParts # <<>>
       /\ Head(patternParts) = Star \/ Head(patternParts) = Head(pathParts)
       /\ SegmentsMatch(Tail(patternParts), Tail(pathParts))

HasDeepSegment(pattern) ==
  \E i \in 1..Len(PatternParts(pattern)) : PatternParts(pattern)[i] = StarStar

\* C11: for a registered pattern with a ** segment that does not end in .**,
\* point-match of the path of a mutation against the pattern is true exactly
\* when the segments match with ** standing for any number of segments, none
\* included: ** matches every path, the root too, and a.**.b matches a.b,
\* a.x.b and a.x.y.b.
C11_DeepSegmentMatchesAnyDepth ==
  Notifying({"set", "clear"}) =>
    \A s \in 1..Len(subscribers) :
      LET pattern == subscribers[s].pattern
          p == normalizePath(last.path)
      IN (HasDeepSegment(pattern) /\ ~EndsWith(pattern, <<".", "*", "*">>)) =>
           (matchesPattern(Join(p), pattern) <=> SegmentsMatch(PatternParts(pattern), p))

\* ---------------------------------------------------------------- silent set

\* C12: set(p, v, {silent: true}) through the observable store returns true
\* and leaves get(p) = v, and invokes no callback, whatever patterns are
\* registered.
C12_SilentSetNotifiesNobody ==
  (last.op = "set" /\ last.layer = "observable" /\ last.options.silent) =>
    /\ last.result = "true"
    /\ CoreGet(data, last.path) = last.value
    /\ calls = <<>>

\* A silent set at a.b while the exact pattern a.b and a wildcard pattern that
\* matches it are registered
C12_Witness ==
  /\ last.op = "set" /\ last.layer = "observable" /\ last.options.silent
  /\ normalizePath(last.path) = <<<<"a">>, <<"b">>>>
  /\ Registered(<<"a", ".", "b">>, "cb1")
  /\ \/ Registered(<<"a", ".", "*">>, "cb2")
     \/ Registered(<<"a", ".", "*", "*">>, "cb2")

\* ---------------------------------------------------------------- subscriptions

\* the number of calls a behaviour of SpecSubscriptions makes
MaxSubscriptionSteps == 4

SubscriptionPatterns == {Str(<<"a", ".", "b">>), Str(<<"a", ".", "*">>)}
SubscriptionCallbacks == {"cb1", "cbThrows"}

InitSubscriptions == Constructed(TRUE)

NextSubscriptions ==
  \/ \E pattern \in SubscriptionPatterns, callback \in SubscriptionCallbacks :
       steps < MaxSubscriptionSteps /\ Subscribe(pattern, callback)
  \/ \E handle \in 1..Len(handles) :
       steps < MaxSubscriptionSteps /\ Unsubscribe(handle)
  \/ \E path \in {PathA, PathAB} :
       steps < MaxSubscriptionSteps /\ Set("observable", path, Num("1"), DefaultOptions)
  \/ steps < MaxSubscriptionSteps /\ Delete("observable", PathAB, DefaultOptions)

SpecSubscriptions == InitSubscriptions /\ [][NextSubscriptions]_vars

\* A subscription to (pattern, callback) is in its lifetime: subscribe has
\* returned a handle for it that has not been invoked
Live(pattern, callback) ==
  \E h \in 1..Len(handles) :
    /\ handles[h].pattern = pattern
    /\ handles[h].callback = callback
    /\ ~handles[h].invoked

\* callback is in the callbacks of pattern in the map subs
RegisteredIn(subs, pattern, callback) ==
  \E s \in 1..Len(subs) :
    /\ subs[s].pattern = pattern
    /\ \E j \in 1..Len(subs[s].callbacks) : subs[s].callbacks[j] = callback

\* C13: a callback is invoked for a pattern only while a subscription of it to
\* that pattern has a handle that was not invoked; invoking a handle removes
\* its callback from its pattern and leaves every other callback, under that
\* pattern and under the others, registered; no pattern is left with no
\* callback; and invoking a handle again changes nothing.
C13_CancellationHandle ==
  [][/\ \A i \in 1..Len(calls') : Live(calls'[i].subscriberPath, calls'[i].callback)
     /\ last'.op = "unsubscribe" =>
          LET handle == handles[last'.arg]
          IN /\ ~RegisteredIn(subscribers', handle.pattern, handle.callback)
             /\ \A other \in Returned :
                  (other.pattern # handle.pattern \/ other.callback # handle.callback)
                    => (RegisteredIn(subscribers', other.pattern, other.callback)
                          <=> RegisteredIn(subscribers, other.pattern, other.callback))
             /\ \A s \in 1..Len(subscribers') : subscribers'[s].callbacks # <<>>
             /\ handle.invoked => subscribers' = subscribers
    ]_vars

\* ---------------------------------------------------------------- callbacks that throw

\* The registrations the last call had to notify: the callbacks of the
\* patterns that equal its path or point-match it
Due(pattern, callback) ==
  /\ Registered(pattern, callback)
  /\ \/ pattern = Join(normalizePath(last.path))
     \/ matchesPattern(Join(normalizePath(last.path)), pattern)

\* C14: when a callback has thrown during the notification of a set or a
\* delete, every callback of every matching pattern has still been invoked
\* once for that pattern, the mutation is in the tree, and the call has
\* returned true.
C14_CallbackFaultIsolation ==
  (/\ last.op \in {"set", "delete"}
   /\ last.layer = "observable"
   /\ \E i \in 1..Len(calls) : calls[i].threw)
  => /\ last.result = "true"
     /\ last.op = "set" => CoreGet(data, last.path) = last.value
     /\ last.op = "delete" => CoreHas(data, last.path) = "false"
     /\ \A pattern \in {h.pattern : h \in Returned}, callback \in SubscriptionCallbacks :
          Cardinality(Invocations(pattern, callback))
            = (IF Due(pattern, callback) THEN 1 ELSE 0)

\* The callback that throws was the first of two under a.b, and one more
\* callback was registered under a.*: all three have been invoked
C14_Witness ==
  /\ last.op = "set" /\ last.layer = "observable" /\ last.result = "true"
  /\ Len(calls) = 3
  /\ calls[1].threw /\ calls[1].subscriberPath = <<"a", ".", "b">>
  /\ ~calls[2].threw /\ calls[2].subscriberPath = <<"a", ".", "b">>
  /\ calls[3].subscriberPath = <<"a", ".", "*">>

\* ---------------------------------------------------------------- standalone journal entries

\* C15: with journaling enabled and no transaction open, a set that succeeds
\* or a delete that returns true, not called with journal: false, appends
\* exactly one entry, of its type, with the normalized path, the value set and
\* the value get(path) had before; the entries before it are the earlier
\* journal, less what the bound evicted.
C15_StandaloneEntryAppended ==
  [][(/\ journalEnabled
      /\ currentTransaction = NoTx
      /\ last'.op \in {"set", "delete"}
      /\ last'.result = "true"
      /\ last'.options.journal)
     => /\ Len(log') = Len(log) + 1
        /\ journal' # <<>>
        /\ journal'[Len(journal')] = log'[Len(log')]
        /\ journal'[Len(journal')].type = last'.op
        /\ journal'[Len(journal')].path = normalizePath(last'.path)
        /\ last'.op = "set" => journal'[Len(journal')].value = last'.value
        /\ journal'[Len(journal')].oldValue = last'.old
        /\ SubSeq(JournalView', 1, Len(journal') - 1)
             = Suffix(JournalView, Len(journal') - 1)
    ]_vars

\* ---------------------------------------------------------------- journal suppression

\* C16: a set or delete called with journal: false, or while journaling is
\* disabled, does to the tree what the core store does with it and returns
\* what the core store returns, and leaves the journal as it was.
C16_SuppressedWriteLeavesJournal ==
  [][(/\ last'.op \in {"set", "delete"}
      /\ ~last'.options.journal \/ ~journalEnabled)
     => /\ JournalView' = JournalView
        /\ last'.op = "set" =>
             data' = CoreSet(data, last'.path, last'.value) /\ last'.result = "true"
        /\ last'.op = "delete" =>
             /\ data' = CoreDelete(data, last'.path).tree
             /\ last'.result = (IF CoreDelete(data, last'.path).result
                                THEN "true" ELSE "false")
    ]_vars

\* ---------------------------------------------------------------- journaling disabled

\* C17: while journaling is disabled the journal is empty.
C17_DisabledJournalIsEmpty ==
  ~journalEnabled => journal = <<>>

\* A transaction with an operation in it has been committed while journaling
\* was disabled
C17_Witness ==
  /\ ~journalEnabled
  /\ last.op = "commitTransaction"
  /\ last.result = "true"
  /\ txOps # <<>>
  /\ txOps[Len(txOps)] # <<>>

\* ---------------------------------------------------------------- clear and import in the journal

\* C18: clear() with journaling enabled and not called with journal: false
\* leaves the tree empty and the journal with exactly one entry, of type
\* clear, whose previousState is the tree as it was before the call.
C18_ClearLeavesOneEntry ==
  [][(last'.op = "clear" /\ journalEnabled /\ last'.options.journal)
     => /\ last'.result = "true"
        /\ data' = EmptyObject
        /\ Len(journal') = 1
        /\ journal'[1].type = "clear"
        /\ journal'[1].previousState = data
    ]_vars

\* A clear made after a transaction that set a to 1 was committed to the
\* journal: the journal holds the clear entry alone, with the tree {a: 1}
C18_Witness ==
  /\ last.op = "clear"
  /\ steps = 4
  /\ Len(txOps) = 1
  /\ txOps[1] # <<>>
  /\ currentTransaction = NoTx
  /\ Len(journal) = 1
  /\ journal[1].type = "clear"
  /\ journal[1].previousState = Put(EmptyObject, <<"a">>, Num("1"))

\* C19: import(data) with journaling enabled and not called with journal:
\* false appends exactly one entry, of type import, that carries data; the
\* entries before it are the earlier journal, less what the bound evicted,
\* whether reset is asked for or not.
C19_ImportAppendsOneEntry ==
  [][(last'.op = "import" /\ journalEnabled /\ last'.options.journal)
     => /\ last'.result = "true"
        /\ Len(log') = Len(log) + 1
        /\ journal' # <<>>
        /\ journal'[Len(journal')] = log'[Len(log')]
        /\ journal'[Len(journal')].type = "import"
        /\ journal'[Len(journal')].data = last'.value
        /\ SubSeq(JournalView', 1, Len(journal') - 1)
             = Suffix(JournalView, Len(journal') - 1)
    ]_vars

\* An import with reset, which is the default, has been journaled behind the
\* entry of an earlier set
C19_Witness ==
  /\ last.op = "import"
  /\ last.options.reset
  /\ Len(journal) = 2
  /\ journal[1].type = "set"
  /\ journal[2].type = "import"
  /\ journal[2].data = Put(EmptyObject, <<"a">>, Num("1"))

\* ---------------------------------------------------------------- import and clear through the observable store

BulkPatterns ==
  {Str(<<>>), Arr(<<>>), PathA, Str(<<"a", ".", "*">>), Str(<<"a", ".", "*", "*">>),
   Str(<<"*">>)}
BulkData == {EmptyObject, Put(EmptyObject, <<"a">>, Num("1")),
             Put(EmptyObject, <<"a">>, ObjectB1)}

InitBulk == Constructed(TRUE)

NextBulk ==
  \/ \E pattern \in BulkPatterns, callback \in Callbacks :
       steps < MaxObservableSteps /\ Subscribe(pattern, callback)
  \/ \E path \in {PathA, PathAB} :
       steps < MaxObservableSteps
       /\ Set("observable", path, Num("2"), [DefaultOptions EXCEPT !.silent = TRUE])
  \/ \E importData \in BulkData, options \in ObservableOptions :
       steps < MaxObservableSteps /\ Import("observable", importData, options)
  \/ \E options \in ObservableOptions :
       steps < MaxObservableSteps /\ Clear("observable", options)

SpecBulk == InitBulk /\ [][NextBulk]_vars

\* C20: an import or clear through the observable store that is not silent
\* invokes the callbacks registered under the root path, once each, with the
\* whole new tree, the whole old tree and the empty path, and invokes no
\* callback registered under another pattern.
C20_BulkNotifiesRootOnly ==
  [][(/\ last'.op \in {"import", "clear"}
      /\ last'.layer = "observable"
      /\ last'.result = "true"
      /\ ~last'.options.silent)
     => /\ \A pattern \in {h.pattern : h \in Returned}, callback \in Callbacks :
             Cardinality(Invocations(pattern, callback)')
               = (IF pattern = <<>> /\ Registered(pattern, callback) THEN 1 ELSE 0)
        /\ \A i \in 1..Len(calls') :
             /\ calls'[i].newValue = data'
             /\ calls'[i].oldValue = data
             /\ calls'[i].path = <<>>
    ]_vars

\* An import has changed the value at a while callbacks were registered under
\* the root path and under a: only the one under the root path has been invoked
C20_Witness ==
  /\ last.op = "import"
  /\ last.layer = "observable"
  /\ ~last.options.silent
  /\ Registered(<<>>, "cb1")
  /\ Registered(<<"a">>, "cb2")
  /\ CoreGet(data, PathA) = Num("1")
  /\ Len(calls) = 1
  /\ calls[1].callback = "cb1"
  /\ calls[1].oldValue = EmptyObject
  /\ calls[1].newValue = data

\* ---------------------------------------------------------------- delete

\* the number of calls a behaviour of SpecDelete makes
MaxDeleteSteps == 4

RootString == Str(<<>>)
RootArray == Arr(<<>>)

DeletePaths == {RootString, RootArray, PathA, PathAB, PathABC}
DeletePatterns == {RootString, PathA, Str(<<"a", ".", "*", "*">>)}

InitDelete == Constructed(TRUE)

NextDelete ==
  \/ \E path \in {PathA, PathAB}, value \in {Num("1"), EmptyObject} :
       steps < MaxDeleteSteps /\ Set("observable", path, value, DefaultOptions)
  \/ \E layer \in Layers, path \in DeletePaths :
       steps < MaxDeleteSteps /\ Delete(layer, path, DefaultOptions)
  \/ steps < MaxDeleteSteps /\ BeginTransaction
  \/ \E pattern \in DeletePatterns :
       steps < MaxDeleteSteps /\ Subscribe(pattern, "cb1")

SpecDelete == InitDelete /\ [][NextDelete]_vars

\* C21: a delete on the root path returns false, and a delete that returns
\* false, through any layer, leaves the tree, the journal and the operations
\* buffered in the transactions as they were and invokes no callback.
C21_FailedDeleteChangesNothing ==
  [][last'.op = "delete" =>
       /\ (normalizePath(last'.path) = <<>>) => last'.result = "false"
       /\ (last'.result = "false") =>
            /\ data' = data
            /\ JournalView' = JournalView
            /\ txOps' = txOps
            /\ calls' = <<>>
    ]_vars

\* Inside a transaction, with a.** subscribed, a delete through the observable
\* store of a key that the map at a does not hold has returned false
C21_Witness ==
  /\ last.op = "delete"
  /\ last.layer = "observable"
  /\ last.result = "false"
  /\ last.path = PathAB
  /\ IsObject(CoreGet(data, PathA))
  /\ currentTransaction # NoTx
  /\ Registered(<<"a", ".", "*", "*">>, "cb1")

\* The value the parent segments of a path resolve to in a tree
ParentOf(tree, path) ==
  getNestedValue(tree, SubSeq(normalizePath(path), 1, Len(normalizePath(path)) - 1))

LastKey(path) == normalizePath(path)[Len(normalizePath(path))]

\* C22 as stated: delete(p) returns false exactly when p is the root path or
\* the parent of p does not resolve to an object, and otherwise returns true
\* and leaves has(p) false, also when the key did not exist.
C22_DeleteFailsOnlyStructurally ==
  [][last'.op = "delete" =>
       /\ (last'.result = "false") <=>
            (normalizePath(last'.path) = <<>> \/ ~IsObject(ParentOf(data, last'.path)))
       /\ (last'.result = "true") => CoreHas(data', last'.path) = "false"
    ]_vars

\* C22, amended: delete(p) returns false exactly when p is the root path, the
\* parent of p does not resolve to an object, or that object does not hold the
\* last key of p; otherwise it returns true and has(p) is false afterwards.
C22_DeleteReportsWhetherKeyExisted ==
  [][last'.op = "delete" =>
       /\ (last'.result = "false") <=>
            \/ normalizePath(last'.path) = <<>>
            \/ ~IsObject(ParentOf(data, last'.path))
            \/ ~In(LastKey(last'.path), ParentOf(data, last'.path))
       /\ (last'.result = "true") => CoreHas(data', last'.path) = "false"
    ]_vars

\* A delete through the core store of a key that the map at a does not hold
\* has returned false, after a delete of a key it did hold returned true
C22_Witness ==
  /\ last.op = "delete"
  /\ last.layer = "core"
  /\ last.result = "false"
  /\ last.path = PathAB
  /\ CoreGet(data, PathA) = EmptyObject
  /\ Len(journal) >= 1
  /\ journal[1].path = <<<<"a">>, <<"b">>>>
  /\ journal[1].value = Num("1")

\* ---------------------------------------------------------------- the tree and its copies

\* the number of calls a behaviour of SpecTree makes
MaxTreeSteps == 3

TreePaths == {RootString, RootArray, PathA, PathAB}
TreeValues == {Num("1"), ObjectB1}
TreeData == {EmptyObject, Put(EmptyObject, <<"a">>, Num("1"))}

\* What a caller imports: an object of its own, or the object the export it
\* has just made returned
Importable ==
  TreeData \cup (IF last.op = "export" /\ IsObject(returned) THEN {returned} ELSE {})

\* Journaling is disabled, so that no journal entry shares an object with the
\* tree
InitTree == Constructed(FALSE)

NextTree ==
  \/ \E layer \in Layers, path \in TreePaths, value \in TreeValues :
       steps < MaxTreeSteps /\ Set(layer, path, value, DefaultOptions)
  \/ \E path \in {PathA, PathAB} :
       steps < MaxTreeSteps /\ Delete("observable", path, DefaultOptions)
  \/ \E path \in TreePaths : steps < MaxTreeSteps /\ Get("observable", path)
  \/ \E path \in TreePaths : steps < MaxTreeSteps /\ Has("observable", path)
  \/ \E path \in TreePaths : steps < MaxTreeSteps /\ GetBranch("observable", path)
  \/ \E path \in TreePaths : steps < MaxTreeSteps /\ Export("observable", path)
  \/ \E layer \in Layers, importData \in Importable, reset \in BOOLEAN :
       /\ steps < MaxTreeSteps
       /\ Import(layer, importData, [DefaultOptions EXCEPT !.reset = reset])
  \/ steps < MaxTreeSteps /\ MutateReturned(<<"b">>, Num("2"))

SpecTree == InitTree /\ [][NextTree]_vars

\* C23: an import of what export() has just returned leaves export(), and
\* get(p) and has(p) for every path p, as they were; and after import(d),
\* export() is d.
C23_ImportExportRoundTrip ==
  [][last'.op = "import" =>
       /\ CoreExport(data', RootString) = last'.value
       /\ (last.op = "export" /\ normalizePath(last.path) = <<>>
            /\ last'.value = returned) =>
            /\ CoreExport(data', RootString) = CoreExport(data, RootString)
            /\ \A p \in TreePaths \cup {PathABC} :
                 /\ CoreGet(data', p) = CoreGet(data, p)
                 /\ CoreHas(data', p) = CoreHas(data, p)
    ]_vars

\* The tree {a: {b: 1}}, which no caller holds as an object of its own, has
\* been exported and imported again
C23_Witness ==
  /\ last.op = "import"
  /\ last.value = Put(EmptyObject, <<"a">>, ObjectB1)
  /\ data = Put(EmptyObject, <<"a">>, ObjectB1)

\* C24: after set(p, v) on the root path has returned true, get(p) and
\* export() are v, as after import(v).
C24_RootSetReplacesTree ==
  (last.op = "set" /\ normalizePath(last.path) = <<>> /\ last.result = "true") =>
    /\ CoreGet(data, last.path) = last.value
    /\ CoreExport(data, RootString) = last.value
    /\ data = CoreImport(data, last.value, FALSE)

\* C25: get, has, set and delete return a value and raise no fault, and has(p)
\* is false when a proper prefix of p resolves to a number.
C25_DataPathNeverFaults ==
  (last.op \in {"get", "has", "set", "delete"}) =>
    /\ last.result \in {"true", "false"}
    /\ (/\ last.op = "has"
        /\ \E n \in 0..(Len(normalizePath(last.path)) - 1) :
             LET prefix == getNestedValue(data, SubSeq(normalizePath(last.path), 1, n))
             IN prefix # Undefined /\ prefix # Null /\ ~IsObject(prefix))
       => last.result = "false"

\* C26: a change the caller makes to the object that get(p), getBranch(p) or
\* export(p) returned leaves get(p) and export(p) as they were.
C26_ReadsReturnCopies ==
  [][last'.op = "write" =>
       /\ CoreGet(data', last'.path) = CoreGet(data, last'.path)
       /\ CoreExport(data', last'.path) = CoreExport(data, last'.path)
    ]_vars

\* ---------------------------------------------------------------- the order of a set

\* C27: in a set through the observable store over the journaled store, not
\* silent, journaled and outside a transaction, every callback is invoked when
\* the tree already holds the new value and the journal already ends with the
\* entry of that set, and is given the value read before the write.
C27_SetOrder ==
  (Notifying({"set"}) /\ last.options.journal /\ journalEnabled
   /\ currentTransaction = NoTx /\ last.options.transaction = NoTx) =>
    \A i \in 1..Len(calls) :
      /\ calls[i].oldValue = last.old
      /\ CoreGet(calls[i].tree, last.path) = last.value
      /\ calls[i].journal # <<>>
      /\ LET entry == calls[i].journal[Len(calls[i].journal)]
         IN /\ entry.type = "set"
            /\ entry.path = normalizePath(last.path)
            /\ entry.value = last.value
            /\ entry.oldValue = last.old

\* Two callbacks have been invoked for the first set at a.b, and the second
\* has found the value and the journal entry of that set
C27_Witness ==
  /\ last.op = "set"
  /\ last.path = PathAB
  /\ Len(calls) = 2
  /\ calls[1].callback # calls[2].callback
  /\ calls[2].newValue = Num("2")
  /\ CoreGet(calls[2].tree, PathAB) = Num("2")
  /\ Len(calls[2].journal) = 1
  /\ calls[2].journal[1].value = Num("2")

\* ---------------------------------------------------------------- NamespacedTupleStore

\* NamespacedTupleStore.prefixKey: a string, whatever the key was
prefixKey(namespace, key) ==
  namespace \o <<".">> \o (IF key.array THEN Join(key.parts) ELSE key.s)

\* NamespacedTupleStore.get over a store of the stack
NamespacedGet(tree, namespace, path) == CoreGet(tree, Str(prefixKey(namespace, path)))

\* NamespacedTupleStore.set over the layer base
NamespacedSetAt(base, namespace, path, value, options) ==
  SetAt(base, Str(prefixKey(namespace, path)), value, options)

\* NamespacedTupleStore.delete
NamespacedDeleteAt(base, namespace, path, options) ==
  DeleteAt(base, Str(prefixKey(namespace, path)), options)

\* The loop of NamespacedTupleStore.clear: one delete for each key found, each
\* on what the one before has left; a delete that returns neither true nor
\* false has thrown, and ends the loop
RECURSIVE deleteEach(_, _, _, _)
deleteEach(base, st, keysToDelete, options) ==
  IF keysToDelete = <<>> THEN st
  ELSE LET deleted == DeleteFrom(base, st, Str(Head(keysToDelete)), options)
       IN IF deleted.result \in {"true", "false"}
          THEN deleteEach(base, deleted, Tail(keysToDelete), options)
          ELSE deleted

\* A NamespacedTupleStore.clear that clears the store it wraps
NamespacedClearWhole(base, namespace, options) == ClearAt(base, options)

\* NamespacedTupleStore.clear: it returns true whatever the deletes returned
NamespacedClearAt(base, namespace, options) ==
  LET keysToDelete == CoreFind(data, Str(namespace \o <<".", "*", "*">>))
  IN [deleteEach(base, Same, keysToDelete, options) EXCEPT !.result = "true"]

\* NamespacedTupleStore.import: the data wrapped in the namespace, handed to the
\* import of the store below
NamespacedImportAt(base, namespace, importData, options) ==
  LET wrappedData == Put(EmptyObject, namespace, importData)
  IN ImportAt(base, wrappedData, options)

\* The pattern NamespacedTupleStore.subscribe registers with the store below
namespacedPattern(namespace, path) ==
  LET pathStr == IF path.array THEN Join(path.parts) ELSE path.s
  IN IF pathStr = StarStar THEN namespace \o <<".", "*", "*">>
     ELSE prefixKey(namespace, path)

\* The handle of the subscription that made the closure
HandleOf(closure) == CHOOSE h \in 1..Len(handles) : handles[h].callback = closure

\* A namespacedCallback that hands the full path on
namespacedCallbackFullPath(invocation) ==
  [callback |-> handles[HandleOf(invocation.callback)].inner,
   newValue |-> invocation.newValue, oldValue |-> invocation.oldValue,
   path |-> invocation.path]

\* The closure namespacedCallback of subscribe, invoked by the store below: the
\* invocation it makes of the callback it was made for
namespacedCallback(invocation) ==
  [callback |-> handles[HandleOf(invocation.callback)].inner,
   newValue |-> invocation.newValue, oldValue |-> invocation.oldValue,
   path |-> SubSeq(invocation.path, 2, Len(invocation.path))]

\* A call through the namespaced store, as last keeps it: arg is the namespace,
\* path the path given, old the value the store below held there
NamespacedCall(op, namespace, path, value, options) ==
  [Call(op, "namespaced", path, value, options, NoTx) EXCEPT
     !.arg = namespace,
     !.old = NamespacedGet(data, namespace, path)]

NamespacedSet(base, namespace, path, value, options) ==
  Apply(NamespacedSetAt(base, namespace, path, value, options),
        NamespacedCall("set", namespace, path, value, options))

NamespacedDelete(base, namespace, path, options) ==
  Apply(NamespacedDeleteAt(base, namespace, path, options),
        NamespacedCall("delete", namespace, path, Undefined, options))

NamespacedClear(base, namespace, options) ==
  Apply(NamespacedClearAt(base, namespace, options),
        NamespacedCall("clear", namespace, NoPath, Undefined, options))

NamespacedImport(base, namespace, importData, options) ==
  Apply(NamespacedImportAt(base, namespace, importData, options),
        NamespacedCall("import", namespace, NoPath, importData, options))

NamespacedRead(namespace, path) ==
  Read(NamespacedCall("get", namespace, path, Undefined, DefaultOptions),
       NamespacedGet(data, namespace, path), "true")

\* NamespacedTupleStore.subscribe over the observable store: each call makes a
\* closure of its own, named by the number of the handle it returns
NamespacedSubscribe(namespace, path, callback) ==
  LET closure == ToString(Len(handles) + 1)
  IN /\ steps < MaxSteps
     /\ subscribers' = subscribe(Str(namespacedPattern(namespace, path)), closure)
     /\ handles' = Append(handles, [pattern |-> namespacedPattern(namespace, path),
                                     callback |-> closure, invoked |-> FALSE,
                                     inner |-> callback, namespace |-> namespace,
                                     path |-> path])
     /\ calls' = <<>>
     /\ last' = NamespacedCall("subscribe", namespace, path, Undefined, DefaultOptions)
     /\ steps' = steps + 1
     /\ found' = <<>>
     /\ returned' = Undefined
     /\ UNCHANGED <<data, journal, journalEnabled, currentTransaction, txOps, txBase,
                    txCalls, log>>

\* the number of calls a behaviour of SpecNamespace makes
MaxNamespaceSteps == 3

Namespaces == {<<"A">>, <<"A", "B">>}
NamespacePaths == {PathA, PathAB, RootString}
NamespacePatterns == {Str(StarStar), Arr(<<StarStar>>), Str(<<"a", ".", "*", "*">>)}

InitNamespace == Constructed(TRUE)

NextNamespace ==
  \/ \E namespace \in Namespaces, path \in NamespacePaths,
        value \in {Num("1"), ObjectB1}, options \in ObservableOptions :
       /\ steps < MaxNamespaceSteps
       /\ NamespacedSet("observable", namespace, path, value, options)
  \/ \E namespace \in Namespaces, path \in NamespacePaths :
       /\ steps < MaxNamespaceSteps
       /\ NamespacedDelete("observable", namespace, path, DefaultOptions)
  \/ \E namespace \in Namespaces :
       /\ steps < MaxNamespaceSteps
       /\ NamespacedClear("observable", namespace, DefaultOptions)
  \/ \E namespace \in Namespaces, importData \in TreeData, reset \in BOOLEAN :
       /\ steps < MaxNamespaceSteps
       /\ NamespacedImport("observable", namespace, importData,
                           [DefaultOptions EXCEPT !.reset = reset])
  \/ \E namespace \in Namespaces, path \in NamespacePaths :
       steps < MaxNamespaceSteps /\ NamespacedRead(namespace, path)
  \/ \E namespace \in Namespaces, pattern \in NamespacePatterns :
       steps < MaxNamespaceSteps /\ NamespacedSubscribe(namespace, pattern, "cb1")
  \/ \E handle \in 1..Len(handles) :
       steps < MaxNamespaceSteps /\ Unsubscribe(handle)

SpecNamespace == InitNamespace /\ [][NextNamespace]_vars

\* ---------------------------------------------------------------- claims on namespaces

\* The paths of the store below that lie in another namespace: the namespace
\* itself and the paths under it
OtherPaths(namespace) ==
  {Str(other) : other \in Namespaces \ {namespace}}
  \cup {Str(prefixKey(other, path)) :
          other \in Namespaces \ {namespace}, path \in NamespacePaths}

\* The tree with every key but the namespace left out
Only(tree, namespace) ==
  IF In(namespace, tree) THEN Put(EmptyObject, namespace, Child(tree, namespace))
  ELSE EmptyObject

\* C28: a set, a delete or a clear through the store of a namespace leaves
\* get(q) on the shared store as it was for every path q in another namespace,
\* and a get through it returns what it would return if the other namespaces
\* held nothing.
C28_NamespaceIsolation ==
  [][last'.layer = "namespaced" =>
       /\ (last'.op \in {"set", "delete", "clear"}) =>
            \A q \in OtherPaths(last'.arg) : CoreGet(data', q) = CoreGet(data, q)
       /\ (last'.op = "get") =>
            returned' = NamespacedGet(Only(data, last'.arg), last'.arg, last'.path)
    ]_vars

\* The namespace A has been cleared, by a delete the journal shows, while the
\* namespace AB held a value, which it still holds
C28_Witness ==
  /\ last.op = "clear"
  /\ last.layer = "namespaced"
  /\ last.arg = <<"A">>
  /\ ~In(<<"A">>, data)
  /\ CoreGet(data, Str(<<"A", "B", ".", "a">>)) = Num("1")
  /\ journal # <<>>
  /\ journal[Len(journal)].type = "delete"
  /\ journal[Len(journal)].path = <<<<"A">>>>

\* C29: an import through the store of a namespace puts the data under the
\* namespace and leaves get(q) on the shared store as it was for every path q
\* in another namespace.
C29_NamespacedImportIsolation ==
  [][(last'.layer = "namespaced" /\ last'.op = "import") =>
       /\ CoreGet(data', Str(last'.arg)) = last'.value
       /\ \A q \in OtherPaths(last'.arg) : CoreGet(data', q) = CoreGet(data, q)
    ]_vars

\* The pattern a namespaced subscribe was given matches the path a namespaced
\* set was given: ** matches every path, prefix.** the prefix and the paths
\* below it
LocalMatch(pattern, localPath) ==
  LET pathStr == subscriberKey(pattern)
  IN IF pathStr = StarStar THEN TRUE
     ELSE IF EndsWith(pathStr, <<".", "*", "*">>)
     THEN IsPrefix(normalizePath(Str(SubSeq(pathStr, 1, Len(pathStr) - 3))), localPath)
     ELSE FALSE

\* C30: a set through the store of a namespace that is not silent invokes each
\* callback subscribed through that namespace under ** or x.**, and not
\* cancelled, once if the pattern matches the path and not otherwise, with the
\* new value, the old value and the path without the namespace segment; it
\* invokes no callback subscribed through another namespace.
C30_NamespacedSubscription ==
  (last.op = "set" /\ last.layer = "namespaced" /\ last.result = "true"
   /\ ~last.options.silent) =>
    \A h \in 1..Len(handles) :
      LET made == {i \in 1..Len(calls) : calls[i].callback = handles[h].callback}
          due == /\ ~handles[h].invoked
                 /\ handles[h].namespace = last.arg
                 /\ LocalMatch(handles[h].path, normalizePath(last.path))
      IN /\ Cardinality(made) = IF due THEN 1 ELSE 0
         /\ \A i \in made :
              LET invocation == namespacedCallback(calls[i])
                  fullPath == normalizePath(Str(prefixKey(last.arg, last.path)))
              IN /\ invocation.callback = handles[h].inner
                 /\ invocation.newValue = last.value
                 /\ invocation.oldValue = last.old
                 /\ invocation.path = Tail(fullPath)
                 /\ (normalizePath(last.path) # <<>>) =>
                      invocation.path = normalizePath(last.path)

\* With ** subscribed through A and a.** through AB, a set at a.b through AB
\* has invoked the callback of AB alone, with the path a, b
C30_Witness ==
  /\ last.op = "set"
  /\ last.layer = "namespaced"
  /\ last.arg = <<"A", "B">>
  /\ last.path = PathAB
  /\ Len(handles) = 2
  /\ handles[1].namespace = <<"A">>
  /\ handles[1].path = Str(StarStar)
  /\ handles[2].namespace = <<"A", "B">>
  /\ handles[2].path = Str(<<"a", ".", "*", "*">>)
  /\ Len(calls) = 1
  /\ namespacedCallback(calls[1]).path = <<<<"a">>, <<"b">>>>

\* ---------------------------------------------------------------- find without **

\* The paths of the tree that a pattern of literal segments and * names: those
\* of its length that have its literal segments at their positions
NamedBy(patternParts) ==
  {p \in DOMAIN data :
     /\ Len(p) = Len(patternParts)
     /\ \A i \in 1..Len(p) : patternParts[i] = Star \/ patternParts[i] = p[i]}

\* C31: for a pattern with no ** segment, find returns the existing paths of
\* the length of the pattern that have its literal segments at their
\* positions, each once, and no other path.
C31_FindWithoutDeepWildcard ==
  (last.op = "find"
   /\ \A i \in 1..Len(normalizePath(last.path)) : normalizePath(last.path)[i] # StarStar) =>
    /\ {found[i] : i \in 1..Len(found)}
         = {Join(p) : p \in NamedBy(normalizePath(last.path))}
    /\ Len(found) = Cardinality(NamedBy(normalizePath(last.path)))

\* find("*") has returned the three keys of the root
C31_Witness ==
  /\ last.op = "find"
  /\ last.path = Str(Star)
  /\ Len(found) = 3
  /\ IsObject(CoreGet(data, PathA))

\* ---------------------------------------------------------------- transactions under subscriptions

\* the number of calls a behaviour of SpecObserved makes
MaxObservedSteps == 4

ObservedPatterns == {PathA, Str(<<"a", ".", "*", "*">>)}
ObservedOptions ==
  {[DefaultOptions EXCEPT !.silent = s, !.journal = j] : s \in BOOLEAN, j \in BOOLEAN}

InitObserved == Constructed(TRUE)

\* The transaction methods of the observable store hand the call to the
\* journaled store
NextObserved ==
  \/ \E pattern \in ObservedPatterns :
       steps < MaxObservedSteps /\ Subscribe(pattern, "cb1")
  \/ \E path \in {PathA, PathAB}, value \in {Num("1"), Num("2")},
        options \in ObservedOptions :
       steps < MaxObservedSteps /\ Set("observable", path, value, options)
  \/ \E path \in {PathA, PathAB} :
       steps < MaxObservedSteps /\ Delete("observable", path, DefaultOptions)
  \/ steps < MaxObservedSteps /\ BeginTransaction
  \/ steps < MaxObservedSteps /\ CommitTransaction(NoTx)
  \/ steps < MaxObservedSteps /\ RollbackTransaction(NoTx)

SpecObserved == InitObserved /\ [][NextObserved]_vars

\* The call matches a subscription: a callback is registered under a pattern
\* that equals its path or point-matches it
MatchesSubscription(call) ==
  \E s \in 1..Len(subscribers) :
    \/ subscribers[s].pattern = Join(normalizePath(call.path))
    \/ matchesPattern(Join(normalizePath(call.path)), subscribers[s].pattern)

\* C32: a set made through the observable store while a transaction is open
\* invokes no callback when it is made; the commit of the transaction invokes
\* the callbacks for the sets buffered in it.
C32_CommitNotifies ==
  [][/\ (currentTransaction # NoTx /\ last'.op = "set") => calls' = <<>>
     /\ (last'.op = "commitTransaction" /\ last'.result = "true"
         /\ \E i \in 1..Len(txCalls) :
              /\ txCalls[i].op = "set"
              /\ ~txCalls[i].options.silent
              /\ MatchesSubscription(txCalls[i]))
          => calls' # <<>>
    ]_vars

\* C33: a rollback that succeeds leaves the journal as it was, appends
\* nothing to it, and invokes no callback.
C33_RollbackIsSilent ==
  [][(last'.op = "rollbackTransaction" /\ last'.result = "true") =>
       /\ JournalView' = JournalView
       /\ log' = log
       /\ calls' = <<>>
    ]_vars

\* A rollback has taken back a set at a that was notified under the pattern a
\* when it was made inside the transaction
C33_Witness ==
  /\ last.op = "rollbackTransaction"
  /\ last.result = "true"
  /\ Registered(<<"a">>, "cb1")
  /\ Len(txCalls) = 1
  /\ txCalls[1].op = "set"
  /\ txCalls[1].path = PathA
  /\ ~txCalls[1].options.silent
  /\ handles[1].pattern = <<"a">>
  /\ CoreGet(data, PathA) = Undefined

\* C36: outside a transaction and with journaling enabled, a silent set
\* through the observable store invokes no callback and appends its journal
\* entry, and a set with journal: false appends no journal entry and invokes
\* every callback of every matching pattern.
C36_SilentAndJournalIndependent ==
  [][(last'.op = "set" /\ currentTransaction = NoTx /\ journalEnabled) =>
       /\ last'.options.silent => calls' = <<>>
       /\ ~last'.options.silent =>
            \A s \in 1..Len(subscribers) :
              (\/ subscribers[s].pattern = Join(normalizePath(last'.path))
               \/ matchesPattern(Join(normalizePath(last'.path)), subscribers[s].pattern))
              => \A j \in 1..Len(subscribers[s].callbacks) :
                   Cardinality({i \in 1..Len(calls') :
                      /\ calls'[i].subscriberPath = subscribers[s].pattern
                      /\ calls'[i].callback = subscribers[s].callbacks[j]}) = 1
       /\ last'.options.journal =>
            /\ Len(log') = Len(log) + 1
            /\ journal'[Len(journal')].type = "set"
            /\ journal'[Len(journal')].path = normalizePath(last'.path)
            /\ journal'[Len(journal')].value = last'.value
       /\ ~last'.options.journal => journal' = journal /\ log' = log
    ]_vars

\* A silent set has been journaled with a.** subscribed, after a set with
\* journal: false that was notified and left the journal empty
C36_Witness ==
  /\ last.op = "set"
  /\ last.options.silent
  /\ last.options.journal
  /\ last.path = PathAB
  /\ last.old = Num("1")
  /\ Registered(<<"a", ".", "*", "*">>, "cb1")
  /\ Len(journal) = 1
  /\ calls = <<>>

\* ---------------------------------------------------------------- transaction handles kept by the caller

\* the number of calls a behaviour of SpecHandles makes after the first three
MaxHandleSteps == 4

\* The options of a call that may name a transaction handle the caller holds
HandleOptions ==
  {[DefaultOptions EXCEPT !.transaction = t] : t \in 0..Len(txOps)}

\* The state after store = createTupleStore(); store.set("a", 1, {journal:
\* false}); t1 = store.beginTransaction(); store.commitTransaction(): the
\* caller holds the handle t1 of a transaction whose entry is in the journal
InitHandles ==
  /\ data = CoreSet(EmptyObject, PathA, Num("1"))
  /\ journal = <<JournalEntry("transaction", <<>>, Undefined, Undefined, Undefined,
                              1, Undefined)>>
  /\ journalEnabled = TRUE
  /\ currentTransaction = NoTx
  /\ txOps = <<<<>>>>
  /\ subscribers = <<>>
  /\ handles = <<>>
  /\ calls = <<>>
  /\ last = Call("commitTransaction", "journaled", NoPath, Undefined, DefaultOptions,
                 NoTx)
  /\ found = <<>>
  /\ returned = Undefined
  /\ txBase = EmptyObject
  /\ txCalls = <<>>
  /\ log = journal
  /\ steps = 0

NextHandles ==
  \/ \E path \in JournalPaths, value \in {Num("1"), Num("2")},
        options \in HandleOptions :
       steps < MaxHandleSteps /\ Set("journaled", path, value, options)
  \/ \E path \in JournalPaths, options \in HandleOptions :
       steps < MaxHandleSteps /\ Delete("journaled", path, options)
  \/ steps < MaxHandleSteps /\ BeginTransaction
  \/ steps < MaxHandleSteps /\ CommitTransaction(NoTx)
  \/ steps < MaxHandleSteps /\ RollbackTransaction(NoTx)

SpecHandles == InitHandles /\ [][NextHandles]_vars

\* C34: after a successful rollback of a transaction in which only set and
\* delete were called, each at a path that held a defined value when it was
\* called, the tree is the tree beginTransaction found.
C34_RollbackRestoresTree ==
  (/\ last.op = "rollbackTransaction"
   /\ last.result = "true"
   /\ \A i \in 1..Len(txCalls) :
        /\ txCalls[i].op \in {"set", "delete"}
        /\ txCalls[i].old # Undefined)
  => data = txBase

\* C35: a set or delete call changes the operation list of no transaction
\* but the one that is open, so the operations of a committed or rolled back
\* transaction stay as they were; and with no transaction open and journaling
\* enabled, a successful set or delete not called with journal: false appends
\* one entry to the journal.
C35_OnlyOpenTransactionBuffers ==
  [][last'.op \in {"set", "delete"} =>
       /\ \A t \in 1..Len(txOps) :
            t # currentTransaction => txOps'[t] = txOps[t]
       /\ (/\ currentTransaction = NoTx
           /\ journalEnabled
           /\ last'.options.journal
           /\ last'.result = "true")
          => Len(log') = Len(log) + 1
    ]_vars

\* ---------------------------------------------------------------- the frame of set

\* Paths beside the paths SpecStack writes at
FramePaths ==
  {Str(<<"b">>), Str(<<"a", ".", "c">>), Str(<<"a", ".", "b", ".", "b">>),
   Str(<<"a", ".", "b", ".", "d">>)}

\* q is neither a prefix nor an extension of p
Beside(q, p) ==
  /\ ~IsPrefix(normalizePath(q), normalizePath(p))
  /\ ~IsPrefix(normalizePath(p), normalizePath(q))

\* C37: a set at p leaves get(q) and has(q) as they were for every path q
\* that is neither a prefix nor an extension of p.
C37_SetFrame ==
  [][last'.op = "set" =>
       \A q \in FramePaths :
         Beside(q, last'.path) =>
           /\ CoreGet(data', q) = CoreGet(data, q)
           /\ CoreHas(data', q) = CoreHas(data, q)
    ]_vars

\* ---------------------------------------------------------------- exact subscriptions

\* C38: a callback subscribed under a pattern without a wildcard is invoked
\* only by a set or delete whose path has the segments of the pattern: a
\* mutation at a path above or below it invokes no callback for it.
C38_ExactSubscription ==
  \A i \in 1..Len(calls) :
    ~Includes(calls[i].subscriberPath, "*") =>
      /\ last.op \in {"set", "delete"}
      /\ normalizePath(Str(calls[i].subscriberPath)) = normalizePath(last.path)

\* A set at a has replaced the map that held a.b while cb1 was subscribed to
\* a.b, and no callback was invoked
C38_Witness ==
  /\ last.op = "set"
  /\ last.path = PathA
  /\ ~last.options.silent
  /\ IsObject(last.old)
  /\ CoreGet(data, PathAB) = Undefined
  /\ Registered(<<"a", ".", "b">>, "cb1")
  /\ calls = <<>>

\* ---------------------------------------------------------------- one handle, one registration

\* C39: a set or delete that notifies invokes the callback of every
\* subscribe call whose own handle has not been invoked and whose pattern the
\* path matches, whatever other handles for the same pattern and callback
\* have been invoked.
C39_HandleRemovesOwnRegistration ==
  (last.op \in {"set", "delete"} /\ last.result = "true" /\ ~last.options.silent) =>
    \A h \in 1..Len(handles) :
      (/\ ~handles[h].invoked
       /\ \/ handles[h].pattern = Join(normalizePath(last.path))
          \/ matchesPattern(Join(normalizePath(last.path)), handles[h].pattern))
      => \E i \in 1..Len(calls) :
           /\ calls[i].subscriberPath = handles[h].pattern
           /\ calls[i].callback = handles[h].callback

\* ---------------------------------------------------------------- import without reset

\* the number of calls a behaviour of SpecImport makes
MaxImportSteps == 3

PathB == Str(<<"b">>)
ImportData == TreeData \cup {Put(EmptyObject, <<"b">>, Num("2"))}

InitImport == Constructed(TRUE)

NextImport ==
  \/ steps < MaxImportSteps /\ Subscribe(RootString, "cb1")
  \/ \E path \in {PathA, PathAB, PathB}, value \in {Num("1"), Num("2")} :
       steps < MaxImportSteps /\ Set("observable", path, value, DefaultOptions)
  \/ \E layer \in Layers, importData \in ImportData, reset \in BOOLEAN :
       /\ steps < MaxImportSteps
       /\ Import(layer, importData, [DefaultOptions EXCEPT !.reset = reset])

SpecImport == InitImport /\ [][NextImport]_vars

====
